---- MODULE Spec2Model ----
(***************************************************************************)
(* A model of postgast's tree walker (walk.py), operator precedence table *)
(* (precedence.py) and SQL pretty-printer (format/).                       *)
(***************************************************************************)
EXTENDS Integers, Sequences, FiniteSets, TLC

VARIABLES
    \* ---- precedence.py: one call of needs_parens(parent, child, side=side)
    parent,      \* the outer expression node
    child,       \* the inner expression node
    side,        \* "left", "right" or "none" (side=None)
    result,      \* the value returned by needs_parens
    ppc,         \* "call" before the call, "done" after it, "idle" otherwise
    \* ---- walk.py: the message tree, walk()'s generator state, a Visitor run
    tree,        \* the protobuf message tree being traversed
    wpc,         \* position of the walk generator: "start", "loop", "done", "idle"
    stack,       \* walk()'s explicit stack of (field_name, message)
    yielded,     \* the (field_name, message) pairs walk() has yielded so far
    visitor,     \* the Visitor subclass: which handlers it defines, what they do
    vpc,         \* position of the visitor run: "start", "run", "done", "idle"
    frames,      \* active generic_visit loops: the node and the next child index
    visitLog,    \* every call of visit(): its argument and the calling generic_visit
    handlerLog,  \* every handler invocation made by visit(): its name and argument
    \* ---- format/: the round-trip and idempotence checks of tests/test_format.py
    sql,         \* the SQL text given to format_sql
    fpc,         \* "start" before format_sql(sql), "formatted" after it, "idle" otherwise
    once,        \* format_sql(sql)
    twice,       \* format_sql(format_sql(sql))
    canon_sql,   \* deparse(parse(sql))
    canon_once,  \* deparse(parse(format_sql(sql)))
    \* ---- format/base.py: one formatter driven call by call
    formatter,   \* _parts, _depth, _at_line_start of the formatter
    \* ---- format/utils.py: concurrent format_sql calls and the cache of _needs_quoting
    cache,       \* the entries of the lru_cache, least recently used first
    callers,     \* per thread: its statement, its position, the answers it got
    \* ---- helpers.py: set_or_replace, set_if_not_exists, set_if_exists
    ddl,         \* the statements of the tree given to the helpers
    calls        \* the calls made so far: the helper and the count it returned

precVars == <<parent, child, side, result, ppc>>
walkVars == <<wpc, stack, yielded>>
visitVars == <<visitor, vpc, frames, visitLog, handlerLog>>
fmtVars == <<sql, fpc, once, twice, canon_sql, canon_once>>
emitVars == <<formatter>>
quoteVars == <<cache, callers>>
ddlVars == <<ddl, calls>>
vars == <<parent, child, side, result, ppc, tree, wpc, stack, yielded,
          visitor, vpc, frames, visitLog, handlerLog,
          sql, fpc, once, twice, canon_sql, canon_once,
          formatter, cache, callers, ddl, calls>>

\* The outcome of a call that returns text or raises: not made yet, returned
\* the text, or raised PgQueryError.
Unset == [status |-> "unset", text |-> <<>>]
Returned(text) == [status |-> "ok", text |-> text]
Raised == [status |-> "error", text |-> <<>>]

IdleFmt ==
    /\ sql = <<>>
    /\ fpc = "idle"
    /\ once = Unset
    /\ twice = Unset
    /\ canon_sql = Unset
    /\ canon_once = Unset

\* Concatenation of a sequence of sequences.
RECURSIVE Flatten(_)
Flatten(ss) == IF ss = <<>> THEN <<>> ELSE Head(ss) \o Flatten(Tail(ss))

\* The elements of a sequence.
Range(s) == {s[i] : i \in 1..Len(s)}

(***************************************************************************)
(* precedence.py                                                           *)
(***************************************************************************)

\* Precedence levels (higher binds tighter).
UNION_LEVEL == 1
INTERSECT == 2
OR == 3
AND == 4
NOT == 5
IS == 6
COMPARISON == 7
PATTERN == 8
ESCAPE == 9
OP == 10
ADD_SUB == 11
MUL_DIV == 12
EXP == 13
AT == 14
COLLATE == 15
UMINUS == 16
SUBSCRIPT == 17
PAREN == 18
TYPECAST == 19
DOT == 20

\* class Precedence: level and associativity ("left", "right", "nonassoc").
Precedence(level, assoc) == [level |-> level, assoc |-> assoc]

\* The sentinel for atomic expressions.
ATOMIC == Precedence(999, "nonassoc")

\* The keys of _OP_TABLE.
OP_TABLE_KEYS ==
    {"<", ">", "=", "<=", ">=", "<>", "!=", "+", "-", "*", "/", "%", "^",
     "||", "&", "|", "#", "~", "<<", ">>"}

\* _OP_TABLE: operator symbol -> (level, assoc).
OP_TABLE(sym) ==
    CASE sym \in {"<", ">", "=", "<=", ">=", "<>", "!="} -> Precedence(COMPARISON, "nonassoc")
      [] sym \in {"+", "-"} -> Precedence(ADD_SUB, "left")
      [] sym \in {"*", "/", "%"} -> Precedence(MUL_DIV, "left")
      [] sym = "^" -> Precedence(EXP, "left")
      [] sym \in {"||", "&", "|", "#", "~", "<<", ">>"} -> Precedence(OP, "left")

\* Constructors of the protobuf messages the precedence code inspects.
\* A Node wrapper holds its oneof as a sequence of length 0 (nothing set) or 1.
PbNode(inner) == [type |-> "Node", node |-> <<inner>>]
PbEmptyNode == [type |-> "Node", node |-> <<>>]
PbString(s) == [type |-> "String", sval |-> s]
PbLeaf(t) == [type |-> t]
PbBoolExpr(boolop, args) == [type |-> "BoolExpr", boolop |-> boolop, args |-> args]
\* lexpr and rexpr are optional message fields: sequences of length 0 or 1.
PbAExpr(kind, name, lexpr, rexpr) ==
    [type |-> "A_Expr", kind |-> kind, name |-> name, lexpr |-> lexpr, rexpr |-> rexpr]

\* precedence._unwrap_node: the concrete message inside a Node wrapper.
PrecUnwrapNode(node) == IF node.node = <<>> THEN node ELSE node.node[1]

\* precedence_of without the test for a prefix minus.
precedence_of_minus_binary(node) ==
    LET inner == IF node.type = "Node" THEN PrecUnwrapNode(node) ELSE node IN
    IF inner.type = "BoolExpr" THEN
        IF inner.boolop = "NOT_EXPR" THEN Precedence(NOT, "right")
        ELSE IF inner.boolop = "AND_EXPR" THEN Precedence(AND, "left")
        ELSE Precedence(OR, "left")
    ELSE IF inner.type = "A_Expr" THEN
        IF inner.kind = "AEXPR_OP" THEN
            IF FALSE
            THEN Precedence(UMINUS, "right")
            ELSE IF /\ inner.name # <<>>
                    /\ PrecUnwrapNode(inner.name[1]).type = "String"
                    /\ PrecUnwrapNode(inner.name[1]).sval \in OP_TABLE_KEYS
            THEN OP_TABLE(PrecUnwrapNode(inner.name[1]).sval)
            ELSE Precedence(OP, "left")
        ELSE IF inner.kind \in {"AEXPR_LIKE", "AEXPR_ILIKE", "AEXPR_SIMILAR"} THEN
            Precedence(PATTERN, "nonassoc")
        ELSE IF inner.kind \in {"AEXPR_BETWEEN", "AEXPR_NOT_BETWEEN",
                                "AEXPR_BETWEEN_SYM", "AEXPR_NOT_BETWEEN_SYM"} THEN
            Precedence(PATTERN, "nonassoc")
        ELSE IF inner.kind = "AEXPR_IN" THEN Precedence(PATTERN, "nonassoc")
        ELSE IF inner.kind \in {"AEXPR_OP_ANY", "AEXPR_OP_ALL"} THEN
            Precedence(PATTERN, "nonassoc")
        ELSE IF inner.kind \in {"AEXPR_DISTINCT", "AEXPR_NOT_DISTINCT", "AEXPR_NULLIF"} THEN
            ATOMIC
        ELSE Precedence(OP, "left")
    ELSE IF inner.type = "NullTest" THEN Precedence(IS, "nonassoc")
    ELSE IF inner.type = "BooleanTest" THEN Precedence(IS, "nonassoc")
    ELSE IF inner.type = "TypeCast" THEN Precedence(TYPECAST, "left")
    ELSE ATOMIC

\* precedence_of(node)
precedence_of(node) ==
    LET inner == IF node.type = "Node" THEN PrecUnwrapNode(node) ELSE node IN
    IF inner.type = "BoolExpr" THEN
        IF inner.boolop = "NOT_EXPR" THEN Precedence(NOT, "right")
        ELSE IF inner.boolop = "AND_EXPR" THEN Precedence(AND, "left")
        ELSE Precedence(OR, "left")
    ELSE IF inner.type = "A_Expr" THEN
        IF inner.kind = "AEXPR_OP" THEN
            IF /\ inner.lexpr = <<>>
               /\ inner.name # <<>>
               /\ PrecUnwrapNode(inner.name[1]).type = "String"
               /\ PrecUnwrapNode(inner.name[1]).sval = "-"
            THEN Precedence(UMINUS, "right")
            ELSE IF /\ inner.name # <<>>
                    /\ PrecUnwrapNode(inner.name[1]).type = "String"
                    /\ PrecUnwrapNode(inner.name[1]).sval \in OP_TABLE_KEYS
            THEN OP_TABLE(PrecUnwrapNode(inner.name[1]).sval)
            ELSE Precedence(OP, "left")
        ELSE IF inner.kind \in {"AEXPR_LIKE", "AEXPR_ILIKE", "AEXPR_SIMILAR"} THEN
            Precedence(PATTERN, "nonassoc")
        ELSE IF inner.kind \in {"AEXPR_BETWEEN", "AEXPR_NOT_BETWEEN",
                                "AEXPR_BETWEEN_SYM", "AEXPR_NOT_BETWEEN_SYM"} THEN
            Precedence(PATTERN, "nonassoc")
        ELSE IF inner.kind = "AEXPR_IN" THEN Precedence(PATTERN, "nonassoc")
        ELSE IF inner.kind \in {"AEXPR_OP_ANY", "AEXPR_OP_ALL"} THEN
            Precedence(PATTERN, "nonassoc")
        ELSE IF inner.kind \in {"AEXPR_DISTINCT", "AEXPR_NOT_DISTINCT", "AEXPR_NULLIF"} THEN
            ATOMIC
        ELSE Precedence(OP, "left")
    ELSE IF inner.type = "NullTest" THEN Precedence(IS, "nonassoc")
    ELSE IF inner.type = "BooleanTest" THEN Precedence(IS, "nonassoc")
    ELSE IF inner.type = "TypeCast" THEN Precedence(TYPECAST, "left")
    ELSE ATOMIC

\* needs_parens with the equal-level, non-associative case answering False.
needs_parens_nonassoc_false(p_node, c_node, s) ==
    LET p == precedence_of(p_node)
        c == precedence_of(c_node)
    IN  IF c.level < p.level THEN TRUE
        ELSE IF c.level # p.level THEN FALSE
        ELSE IF p.assoc = "nonassoc" THEN FALSE
        ELSE IF s = "none" THEN FALSE
        ELSE IF p.assoc = "left" THEN s = "right"
        ELSE s = "left"

\* needs_parens with the associativity test on the wrong side.
needs_parens_swapped_side(p_node, c_node, s) ==
    LET p == precedence_of(p_node)
        c == precedence_of(c_node)
    IN  IF c.level < p.level THEN TRUE
        ELSE IF c.level # p.level THEN FALSE
        ELSE IF p.assoc = "nonassoc" THEN TRUE
        ELSE IF s = "none" THEN FALSE
        ELSE IF p.assoc = "left" THEN s = "left"
        ELSE s = "right"

\* needs_parens(parent, child, side=side)
needs_parens(p_node, c_node, s) ==
    LET p == precedence_of(p_node)
        c == precedence_of(c_node)
    IN  IF c.level < p.level THEN TRUE
        ELSE IF c.level # p.level THEN FALSE
        ELSE IF p.assoc = "nonassoc" THEN TRUE
        ELSE IF s = "none" THEN FALSE
        ELSE IF p.assoc = "left" THEN s = "right"
        ELSE s = "left"

\* ---- the inputs of the precedence specification ----

\* Operator symbols tried in A_Expr.name: table entries of every level and
\* one symbol that is not in the table.
PrecOpSyms == {"=", "<", "+", "-", "*", "^", "||", "@@"}

PrecAExprKinds ==
    {"AEXPR_OP", "AEXPR_OP_ANY", "AEXPR_OP_ALL", "AEXPR_DISTINCT", "AEXPR_NOT_DISTINCT",
     "AEXPR_NULLIF", "AEXPR_IN", "AEXPR_LIKE", "AEXPR_ILIKE", "AEXPR_SIMILAR",
     "AEXPR_BETWEEN", "AEXPR_NOT_BETWEEN", "AEXPR_BETWEEN_SYM", "AEXPR_NOT_BETWEEN_SYM"}

ColA == [type |-> "ColumnRef", fields |-> <<PbNode(PbString("a"))>>]
ColB == [type |-> "ColumnRef", fields |-> <<PbNode(PbString("b"))>>]

\* Unwrapped expression messages, built as test_precedence.py builds them.
PrecBareNodes ==
    {PbBoolExpr(b, <<>>) : b \in {"NOT_EXPR", "AND_EXPR", "OR_EXPR"}}
    \cup {PbAExpr("AEXPR_OP", <<PbNode(PbString(s))>>, l, <<PbNode(ColB)>>) :
              s \in PrecOpSyms, l \in {<<>>, <<PbNode(ColA)>>}}
    \cup {PbAExpr("AEXPR_OP", <<>>, <<PbNode(ColA)>>, <<PbNode(ColB)>>)}
    \cup {PbAExpr(k, <<PbNode(PbString("="))>>, <<PbNode(ColA)>>, <<PbNode(ColB)>>) :
              k \in PrecAExprKinds \ {"AEXPR_OP"}}
    \cup {PbLeaf(t) : t \in {"NullTest", "BooleanTest", "TypeCast", "A_Const",
                             "FuncCall", "SubLink", "CaseExpr"}}
    \cup {ColA}

\* Every expression message, bare and inside a Node wrapper, and the empty wrapper.
PrecNodes == PrecBareNodes \cup {PbNode(n) : n \in PrecBareNodes} \cup {PbEmptyNode}

Sides == {"left", "right", "none"}

IdlePrec ==
    /\ parent = PbEmptyNode
    /\ child = PbEmptyNode
    /\ side = "none"
    /\ result = FALSE
    /\ ppc = "idle"

InitPrec ==
    /\ parent \in PrecNodes
    /\ child \in PrecNodes
    /\ side \in Sides
    /\ result = FALSE
    /\ ppc = "call"

\* The call needs_parens(parent, child, side=side) returns.
CallNeedsParens ==
    /\ ppc = "call"
    /\ result' = needs_parens(parent, child, side)
    /\ ppc' = "done"
    /\ UNCHANGED <<parent, child, side>>

(***************************************************************************)
(* walk.py: the message tree                                               *)
(***************************************************************************)

\* The largest number of concrete messages in a tree given to walk().
MaxNodes == 4
\* The same for the walks whose termination is checked.
MaxLiveNodes == 3
\* The largest number of concrete messages in a tree given to a visitor.
MaxVisitNodes == 3

\* Message kinds (DESCRIPTOR.name); message i of a tree has kind KindOf(i).
KindNames == <<"SelectStmt", "ResTarget", "ColumnRef">>
KindOf(i) == KindNames[((i - 1) % Len(KindNames)) + 1]

\* The message-typed fields of every kind in schema declaration order: "arg"
\* is a singular Node field, "items" a repeated field of concrete messages
\* (as ParseResult.stmts), "args" a repeated Node field.
MsgFields == <<"arg", "items", "args">>

\* A tree of n concrete messages: message 1 is the root, message i > 1 sits
\* in field via[i] of message up[i]; emptyAt # 0 names the message whose
\* "args" ends with a Node wrapper that has nothing set (as the
\* distinct_clause of SELECT DISTINCT); rootWrapped says whether the caller
\* passes the root inside a Node wrapper.
TreeShapes(n) ==
    {t \in [n : {n}, up : [2..n -> 1..n], via : [2..n -> Range(MsgFields)],
            emptyAt : 0..n, rootWrapped : BOOLEAN] :
        /\ \A i \in 2..n : t.up[i] < i
        /\ \A i, j \in 2..n :
              (i # j /\ t.up[i] = t.up[j] /\ t.via[i] = "arg") => t.via[j] # "arg"}

Trees(max) == UNION {TreeShapes(n) : n \in 1..max}

\* Values handed around by the traversal code.
Msg(i) == [k |-> "msg", id |-> i]          \* concrete message i
Wrapper(i) == [k |-> "Node", id |-> i]     \* Node wrapper around message i
EmptyWrapper == [k |-> "Node", id |-> 0]   \* Node wrapper with nothing set
Scalar == [k |-> "scalar", id |-> 0]       \* a string, int, bool or enum value

\* type(m).DESCRIPTOR.name
TypeName(m) ==
    IF m.k = "Node" THEN "Node" ELSE IF m.k = "msg" THEN KindOf(m.id) ELSE "scalar"

RootArg(t) == IF t.rootWrapped THEN Wrapper(1) ELSE Msg(1)

RECURSIVE SortedSeq(_)
SortedSeq(S) ==
    IF S = {} THEN <<>>
    ELSE LET m == CHOOSE x \in S : \A y \in S : x <= y
         IN  <<m>> \o SortedSeq(S \ {m})

\* The messages stored in field f of message i, in sequence order.
ChildrenVia(t, i, f) == SortedSeq({c \in 2..t.n : t.up[c] = i /\ t.via[c] = f})

Reverse(s) == [i \in 1..Len(s) |-> s[Len(s) + 1 - i]]

\* Message.ListFields(): the set fields of m in field-number order, each with
\* its name, whether it is message-typed, whether it is repeated, its values.
ListFields(t, m) ==
    IF m.k = "Node" THEN
        IF m.id = 0 THEN <<>>
        ELSE <<[name |-> "oneof", isMsg |-> TRUE, rep |-> FALSE, vals |-> <<Msg(m.id)>>]>>
    ELSE IF m.k # "msg" THEN <<>>
    ELSE
        LET i == m.id
            argC == ChildrenVia(t, i, "arg")
            itemsC == ChildrenVia(t, i, "items")
            argsC == ChildrenVia(t, i, "args")
            argsV == [j \in 1..Len(argsC) |-> Wrapper(argsC[j])]
                       \o (IF t.emptyAt = i THEN <<EmptyWrapper>> ELSE <<>>)
        IN  <<[name |-> "sval", isMsg |-> FALSE, rep |-> FALSE, vals |-> <<Scalar>>]>>
            \o (IF argC = <<>> THEN <<>>
                ELSE <<[name |-> "arg", isMsg |-> TRUE, rep |-> FALSE,
                        vals |-> <<Wrapper(argC[1])>>]>>)
            \o (IF itemsC = <<>> THEN <<>>
                ELSE <<[name |-> "items", isMsg |-> TRUE, rep |-> TRUE,
                        vals |-> [j \in 1..Len(itemsC) |-> Msg(itemsC[j])]]>>)
            \o (IF argsV = <<>> THEN <<>>
                ELSE <<[name |-> "args", isMsg |-> TRUE, rep |-> TRUE, vals |-> argsV]>>)
            \o <<[name |-> "location", isMsg |-> FALSE, rep |-> FALSE, vals |-> <<Scalar>>]>>

\* unwrap_node(node)
unwrap_node(m) ==
    IF m.k = "Node" /\ m.id # 0 THEN Msg(m.id) ELSE m

\* _iter_children that does not skip scalar fields.
iter_children_with_scalars(t, m) ==
    LET lf == ListFields(t, m)
    IN  Flatten([j \in 1..Len(lf) |->
            [x \in 1..Len(lf[j].vals) |->
                [field |-> lf[j].name, msg |-> unwrap_node(lf[j].vals[x])]]])

\* _iter_children(node)
iter_children(t, m) ==
    LET lf == ListFields(t, m)
    IN  Flatten([j \in 1..Len(lf) |->
            IF ~lf[j].isMsg THEN <<>>
            ELSE IF ~lf[j].rep THEN
                <<[field |-> lf[j].name, msg |-> unwrap_node(lf[j].vals[1])]>>
            ELSE [x \in 1..Len(lf[j].vals) |->
                    [field |-> lf[j].name, msg |-> unwrap_node(lf[j].vals[x])]]])

\* The children pushed by walk() in iteration order instead of reversed.
walk_push_unreversed(t, m) == iter_children(t, m)

\* The children walk() pushes for a message: reversed(list(_iter_children(m)))
walk_push(t, m) == Reverse(iter_children(t, m))

(***************************************************************************)
(* walk.py: walk()                                                         *)
(***************************************************************************)

IdleWalk ==
    /\ wpc = "idle"
    /\ stack = <<>>
    /\ yielded = <<>>

\* walk(node) up to its first yield: unwrap the root, yield it, fill the stack.
WalkStart ==
    /\ wpc = "start"
    /\ LET node == unwrap_node(RootArg(tree))
       IN  /\ yielded' = <<[field |-> "", msg |-> node]>>
           /\ stack' = walk_push(tree, node)
    /\ wpc' = "loop"
    /\ UNCHANGED <<tree, precVars, visitVars, fmtVars, emitVars, quoteVars, ddlVars>>

\* One iteration of the while loop: pop, yield, push the children.
WalkStep ==
    /\ wpc = "loop"
    /\ stack # <<>>
    /\ LET top == stack[Len(stack)]
       IN  /\ yielded' = Append(yielded, top)
           /\ stack' = SubSeq(stack, 1, Len(stack) - 1) \o walk_push(tree, top.msg)
    /\ UNCHANGED <<wpc, tree, precVars, visitVars, fmtVars, emitVars, quoteVars, ddlVars>>

\* The stack is empty: the generator returns.
WalkReturn ==
    /\ wpc = "loop"
    /\ stack = <<>>
    /\ wpc' = "done"
    /\ UNCHANGED <<stack, yielded, tree, precVars, visitVars, fmtVars,
                   emitVars, quoteVars, ddlVars>>

(***************************************************************************)
(* walk.py: Visitor and TypedVisitor                                       *)
(***************************************************************************)

\* The kinds a modelled visitor subclass may define a visit_<Kind> method for.
HandlerKinds == {"SelectStmt", "ColumnRef", "Node"}

\* A visitor subclass: the kinds it defines visit_<Kind> for, those of its
\* handlers that call self.generic_visit(node), and whether it derives from
\* TypedVisitor (handlers receive typed wrappers) or from Visitor.
Visitors ==
    {v \in [defined : SUBSET HandlerKinds, recursing : SUBSET HandlerKinds, typed : BOOLEAN] :
        v.recursing \subseteq v.defined}

NoVisitor == [defined |-> {}, recursing |-> {}, typed |-> FALSE]

GenericVisit == [h |-> "generic_visit", kind |-> ""]
VisitHandler(kind) == [h |-> "visit", kind |-> kind]

\* nodes.base._wrap(pb): peel a Node wrapper, then pick the wrapper class
\* registered for the kind, AstNode when none is.
wrap_typed(m) ==
    LET pb == IF m.k = "Node" /\ m.id # 0 THEN Msg(m.id) ELSE m
    IN  [cls |-> IF TypeName(pb) \in Range(KindNames) THEN TypeName(pb) ELSE "AstNode",
         pb |-> pb]

\* The lookup in visit() that ignores the subclass's handlers.
visit_lookup_generic_only(v, type_name) == GenericVisit

\* getattr(self, f"visit_{type_name}", self.generic_visit)
visit_lookup(v, type_name) ==
    IF type_name \in v.defined THEN VisitHandler(type_name) ELSE GenericVisit

\* The handler Visitor.visit(arg) / TypedVisitor.visit(wrap(arg)) invokes and
\* the message it hands to it.
visit_dispatch(v, arg) ==
    IF v.typed
    THEN LET w == wrap_typed(arg)
         IN  [handler |-> visit_lookup(v, w.cls), node |-> w.pb]
    ELSE LET node == unwrap_node(arg)
         IN  [handler |-> visit_lookup(v, TypeName(node)), node |-> node]

\* Does the invoked handler run generic_visit's loop over the node's children?
Recurses(v, handler) ==
    handler = GenericVisit \/ handler.kind \in v.recursing

\* generic_visit that walks the whole subtree instead of one level.
generic_visit_children_deep(t, m) ==
    LET RECURSIVE Deep(_)
        Deep(x) ==
            LET ch == iter_children(t, x)
            IN  Flatten([j \in 1..Len(ch) |-> <<ch[j]>> \o Deep(ch[j].msg)])
    IN  Deep(m)

\* The children generic_visit(node) loops over: _iter_children(node).
generic_visit_children(t, m) == iter_children(t, m)

IdleVisit ==
    /\ visitor = NoVisitor
    /\ vpc = "idle"
    /\ frames = <<>>
    /\ visitLog = <<>>
    /\ handlerLog = <<>>

\* The code that calls visit(root).
Caller == [k |-> "caller", id |-> 0]

\* The effect of one call visit(arg) made by the generic_visit loop of `by`
\* (Caller for the root visit): one handler
\* is invoked; when it runs generic_visit its loop becomes the active frame.
DoVisit(arg, by, rest) ==
    LET d == visit_dispatch(visitor, arg)
    IN  /\ visitLog' = Append(visitLog, [arg |-> arg, by |-> by])
        /\ handlerLog' = Append(handlerLog, d)
        /\ frames' = IF Recurses(visitor, d.handler)
                     THEN Append(rest, [node |-> d.node,
                                        kids |-> generic_visit_children(tree, d.node),
                                        i |-> 1])
                     ELSE rest

\* The caller invokes visit(root).
VisitRoot ==
    /\ vpc = "start"
    /\ DoVisit(RootArg(tree), Caller, <<>>)
    /\ vpc' = "run"
    /\ UNCHANGED <<visitor, tree, precVars, walkVars, fmtVars, emitVars, quoteVars, ddlVars>>

\* The innermost generic_visit loop calls visit(child) for its next child.
VisitChild ==
    /\ vpc = "run"
    /\ frames # <<>>
    /\ LET top == frames[Len(frames)]
       IN  /\ top.i <= Len(top.kids)
           /\ DoVisit(top.kids[top.i].msg, top.node,
                      [frames EXCEPT ![Len(frames)].i = top.i + 1])
    /\ UNCHANGED <<vpc, visitor, tree, precVars, walkVars, fmtVars, emitVars, quoteVars, ddlVars>>

\* The innermost generic_visit loop is exhausted and returns.
VisitReturn ==
    /\ vpc = "run"
    /\ frames # <<>>
    /\ frames[Len(frames)].i > Len(frames[Len(frames)].kids)
    /\ frames' = SubSeq(frames, 1, Len(frames) - 1)
    /\ UNCHANGED <<vpc, visitLog, handlerLog, visitor, tree, precVars, walkVars, fmtVars,
                   emitVars, quoteVars, ddlVars>>

\* The root visit() returns to the caller.
VisitDone ==
    /\ vpc = "run"
    /\ frames = <<>>
    /\ vpc' = "done"
    /\ UNCHANGED <<frames, visitLog, handlerLog, visitor, tree, precVars, walkVars, fmtVars,
                   emitVars, quoteVars, ddlVars>>

(***************************************************************************)
(* format/: SQL text, identifiers and the emitter                          *)
(***************************************************************************)

\* SQL text is the sequence of its lexical pieces: a keyword, an identifier
\* as written, an operator, a punctuation mark, one space " " or one line
\* break "\n".  The empty string is <<>>; "+" on strings is \o.

\* The identifiers the statements use.
Names == {"a", "b", "t", "Foo", "foo", "select"}

\* str.lower(), and the lexer's case folding of an unquoted identifier.
Lower(name) == IF name = "Foo" THEN "foo" ELSE name

\* '"' + name + '"'
Quoted(name) ==
    CASE name = "a" -> "\"a\""
      [] name = "b" -> "\"b\""
      [] name = "t" -> "\"t\""
      [] name = "Foo" -> "\"Foo\""
      [] name = "foo" -> "\"foo\""
      [] name = "select" -> "\"select\""

\* _SIMPLE_IDENT_RE.match(name): the names are alphabetic, so the pattern
\* ^[a-z_][a-z0-9_]*$ matches the ones without an upper-case letter.
SIMPLE_IDENT_RE_match(name) == Lower(name) = name

\* scan("SELECT " + name).tokens[1].keyword_kind == RESERVED_KEYWORD
ScanReservedKeyword(name) == name = "select"

\* _needs_quoting(name)
needs_quoting(name) ==
    IF ~SIMPLE_IDENT_RE_match(name) THEN TRUE
    ELSE ScanReservedKeyword(name)

\* _quote_ident(name); no name holds a double quote to escape.
quote_ident(name) == IF needs_quoting(name) THEN Quoted(name) ELSE name

\* _SqlFormatterBase.__init__ and reset(): the formatter's fields, _parts kept
\* joined, and whether an exception has left a visitor method.  min_depth is
\* no field of the class: it keeps the lowest value _depth has had.
NewFormatter ==
    [parts |-> <<>>, depth |-> 0, at_line_start |-> TRUE, in_clause_context |-> FALSE,
     raised |-> FALSE, min_depth |-> 0]

\* reset() that leaves _parts as it finds it.
reset_without_clear(e) == [NewFormatter EXCEPT !.parts = e.parts]

\* reset()
reset(e) == NewFormatter

\* get_output(): the joined parts without trailing white space (str.rstrip).
get_output(e) ==
    LET RECURSIVE rstrip(_)
        rstrip(text) ==
            IF text # <<>> /\ text[Len(text)] \in {" ", "\n"}
            THEN rstrip(SubSeq(text, 1, Len(text) - 1))
            ELSE text
    IN  rstrip(e.parts)

\* _emit(text) that writes the indentation before a lone new line too.
emit_indenting_newline(e, text) ==
    IF e.at_line_start /\ text # <<>>
    THEN [e EXCEPT !.parts = @ \o [i \in 1..(2 * e.depth) |-> " "] \o text,
                   !.at_line_start = FALSE]
    ELSE [e EXCEPT !.parts = @ \o text]

\* _emit(text)
emit(e, text) ==
    IF e.at_line_start /\ text # <<>> /\ text # <<"\n">>
    THEN [e EXCEPT !.parts = @ \o [i \in 1..(2 * e.depth) |-> " "] \o text,
                   !.at_line_start = FALSE]
    ELSE [e EXCEPT !.parts = @ \o text]

\* _newline()
newline(e) == [e EXCEPT !.parts = Append(@, "\n"), !.at_line_start = TRUE]

\* _indent()
indent(e) == [e EXCEPT !.depth = @ + 1]

\* _dedent()
dedent(e) ==
    [e EXCEPT !.depth = @ - 1,
              !.min_depth = IF e.depth - 1 < @ THEN e.depth - 1 ELSE @]

\* walk.unwrap_node on a message given by value.
UnwrapPb(node) ==
    IF node.type # "Node" THEN node
    ELSE IF node.node = <<>> THEN node
    ELSE node.node[1]


\* sep.join(texts)
RECURSIVE JoinText(_, _)
JoinText(texts, sep) ==
    IF texts = <<>> THEN <<>>
    ELSE IF Len(texts) = 1 THEN texts[1]
    ELSE texts[1] \o sep \o JoinText(Tail(texts), sep)

(***************************************************************************)
(* The parse tree the formatter is given                                   *)
(***************************************************************************)

\* Constructors of the protobuf messages of a statement.  A repeated field
\* is a sequence, an optional message field a sequence of length 0 or 1, a
\* Node-typed field holds PbNode(message), an unset string is "".
PbResTarget(name, val) == [type |-> "ResTarget", name |-> name, val |-> val]
PbSortBy(node, sortby_dir, sortby_nulls) ==
    [type |-> "SortBy", node |-> node, sortby_dir |-> sortby_dir,
     sortby_nulls |-> sortby_nulls]

\* pb.SelectStmt() with nothing set.
PbSelectStmt ==
    [type |-> "SelectStmt", distinct_clause |-> <<>>, target_list |-> <<>>,
     from_clause |-> <<>>, where_clause |-> <<>>, group_clause |-> <<>>,
     having_clause |-> <<>>, values_lists |-> <<>>, sort_clause |-> <<>>,
     limit_offset |-> <<>>, limit_count |-> <<>>, locking_clause |-> <<>>,
     with_clause |-> <<>>, op |-> "SETOP_NONE", all |-> FALSE,
     larg |-> <<>>, rarg |-> <<>>]

\* The text of a string that may be empty.
Tok(s) == IF s = "" THEN <<>> ELSE <<s>>

\* Reading a Node-typed field that may be unset yields an empty Node.
Opt(field) == IF field = <<>> THEN PbEmptyNode ELSE field[1]

(***************************************************************************)
(* deparse.py: the engine's canonical SQL text of a parse tree             *)
(***************************************************************************)

\* The text of an expression.  An operand that is an operator expression is
\* parenthesised.  An operand of AND or OR that is itself the same operator
\* contributes its own operands, so that trees differing only in how such a
\* chain is nested have one text.
RECURSIVE DeparseExpr(_)
DeparseExpr(node) ==
    LET inner == UnwrapPb(node)
        Operand(n) ==
            IF UnwrapPb(n).type \in {"A_Expr", "BoolExpr"}
            THEN <<"(">> \o DeparseExpr(n) \o <<")">>
            ELSE DeparseExpr(n)
        RECURSIVE ChainArgs(_)
        ChainArgs(args) ==
            IF args = <<>> THEN <<>>
            ELSE LET h == UnwrapPb(Head(args)) IN
                 (IF h.type = "BoolExpr" /\ h.boolop = inner.boolop
                  THEN ChainArgs(h.args)
                  ELSE <<h>>) \o ChainArgs(Tail(args))
    IN
    CASE inner.type = "ColumnRef" ->
            JoinText([i \in 1..Len(inner.fields) |->
                         <<quote_ident(UnwrapPb(inner.fields[i]).sval)>>], <<".">>)
      [] inner.type = "BoolExpr" ->
            IF inner.boolop = "NOT_EXPR"
            THEN <<"NOT", " ">> \o Operand(inner.args[1])
            ELSE LET args == ChainArgs(inner.args)
                     op == IF inner.boolop = "AND_EXPR" THEN "AND" ELSE "OR"
                 IN  JoinText([i \in 1..Len(args) |-> Operand(args[i])], <<" ", op, " ">>)
      [] inner.type = "A_Expr" ->
            LET op_name == UnwrapPb(inner.name[1]).sval IN
            IF inner.kind = "AEXPR_LIKE"
            THEN Operand(inner.lexpr[1])
                 \o (IF op_name = "!~~" THEN <<" ", "NOT", " ", "LIKE", " ">>
                     ELSE <<" ", "LIKE", " ">>)
                 \o Operand(inner.rexpr[1])
            ELSE IF inner.lexpr # <<>>
            THEN Operand(inner.lexpr[1]) \o <<" ", op_name, " ">> \o Operand(inner.rexpr[1])
            ELSE <<op_name, " ">> \o Operand(inner.rexpr[1])

\* The text of a SELECT: its clauses in the grammar's order, one space apart.
RECURSIVE DeparseSelectStmt(_)
DeparseSelectStmt(stmt) ==
    LET Items(list, Item(_)) ==
            JoinText([i \in 1..Len(list) |-> Item(UnwrapPb(list[i]))], <<",", " ">>)
        ResTarget(rt) ==
            DeparseExpr(rt.val)
            \o (IF rt.name # "" THEN <<" ", "AS", " ", quote_ident(rt.name)>> ELSE <<>>)
        SortBy(sb) ==
            DeparseExpr(sb.node)
            \o (CASE sb.sortby_dir = "SORTBY_ASC" -> <<" ", "ASC">>
                  [] sb.sortby_dir = "SORTBY_DESC" -> <<" ", "DESC">>
                  [] OTHER -> <<>>)
        Clause(kws, field, text) == IF field # <<>> THEN <<" ">> \o kws \o <<" ">> \o text ELSE <<>>
        options ==
            Clause(<<"ORDER", " ", "BY">>, stmt.sort_clause, Items(stmt.sort_clause, SortBy))
            \o Clause(<<"LIMIT">>, stmt.limit_count, DeparseExpr(Opt(stmt.limit_count)))
            \o Clause(<<"OFFSET">>, stmt.limit_offset, DeparseExpr(Opt(stmt.limit_offset)))
    IN
    IF stmt.op # "SETOP_NONE"
    THEN DeparseSelectStmt(stmt.larg[1])
         \o <<" ", "UNION">> \o (IF stmt.all THEN <<" ", "ALL">> ELSE <<>>) \o <<" ">>
         \o DeparseSelectStmt(stmt.rarg[1])
         \o options
    ELSE <<"SELECT">>
         \o (IF stmt.distinct_clause # <<>> THEN <<" ", "DISTINCT">> ELSE <<>>)
         \o <<" ">> \o Items(stmt.target_list, ResTarget)
         \o Clause(<<"FROM">>, stmt.from_clause,
                   Items(stmt.from_clause, LAMBDA rv : <<quote_ident(rv.relname)>>))
         \o Clause(<<"WHERE">>, stmt.where_clause, DeparseExpr(Opt(stmt.where_clause)))
         \o Clause(<<"GROUP", " ", "BY">>, stmt.group_clause,
                   Items(stmt.group_clause, DeparseExpr))
         \o Clause(<<"HAVING">>, stmt.having_clause, DeparseExpr(Opt(stmt.having_clause)))
         \o options

\* The text of one statement.
DeparseStmt(stmt) ==
    IF stmt.type = "SelectStmt" THEN DeparseSelectStmt(stmt)
    ELSE <<"SHOW", " ", stmt.name>>

\* deparse(tree): the statements, separated by "; ".
deparse(parse_result) ==
    JoinText([i \in 1..Len(parse_result.stmts) |->
                 DeparseStmt(UnwrapPb(parse_result.stmts[i].stmt))],
             <<";", " ">>)

(***************************************************************************)
(* format/base.py and format/expressions.py: the visitor methods           *)
(***************************************************************************)

\* Every method takes the formatter's fields and returns them as the method
\* leaves them.  An exception leaving a method is recorded in "raised".

\* _deparse_node(node): the engine deparses statements only.
deparse_node(node) ==
    IF node.type \in {"SelectStmt", "VariableShowStmt"}
    THEN Returned(DeparseStmt(node))
    ELSE Raised

RECURSIVE visit(_, _)
RECURSIVE call_item(_, _, _)

\* for i, item in enumerate(items): the separator before every item but the
\* first ("inline": ", "; "multiline": "," and a new line; "none"), then the
\* callback fn on the item.
RECURSIVE emit_list(_, _, _, _, _)
emit_list(e, items, i, sep, fn) ==
    IF e.raised \/ i > Len(items) THEN e
    ELSE LET e1 == IF i = 1 THEN e
                   ELSE CASE sep = "inline" -> emit(e, <<",", " ">>)
                          [] sep = "multiline" -> newline(emit(e, <<",">>))
                          [] OTHER -> e
         IN  emit_list(call_item(fn, e1, items[i]), items, i + 1, sep, fn)

\* _emit_inline_list(items, visit=fn)
emit_inline_list(e, items, fn) == emit_list(e, items, 1, "inline", fn)

\* _emit_multiline_list(items, visit=fn)
emit_multiline_list(e, items, fn) == emit_list(e, items, 1, "multiline", fn)

\* _SqlFormatterBase.generic_visit(node): the deparsed text, and when the
\* engine refuses the node, Visitor.generic_visit over its message-typed
\* children.
generic_visit(e, node) ==
    LET children == CASE node.type = "List" -> node.items
                      [] node.type = "Alias" -> node.colnames
                      [] node.type = "WithClause" -> node.ctes
                      [] node.type = "LockingClause" -> node.locked_rels
                      [] node.type = "CollateClause" -> node.arg \o node.collname
                      [] OTHER -> <<>>
        Output(r) ==
            IF r.status = "ok" THEN emit(e, r.text)
            ELSE emit_list(e, children, 1, "none", "visit")
    IN  Output(deparse_node(node))

\* _fmt(node) that does not set _depth to 0 for the call.
fmt_at_current_depth(e, node) ==
    LET r == visit([e EXCEPT !.parts = <<>>, !.at_line_start = TRUE], node)
    IN  [result |-> r.parts,
         e |-> [r EXCEPT !.parts = e.parts, !.depth = e.depth,
                         !.at_line_start = e.at_line_start]]

\* _fmt(node): the text, and the formatter as the call leaves it.
fmt(e, node) ==
    LET r == visit([e EXCEPT !.parts = <<>>, !.depth = 0, !.at_line_start = TRUE], node)
    IN  [result |-> r.parts,
         e |-> [r EXCEPT !.parts = e.parts, !.depth = e.depth,
                         !.at_line_start = e.at_line_start]]

\* _visit_expr(parent, child, side=side)
visit_expr(e, p_node, c_node, s) ==
    IF needs_parens(p_node, c_node, s)
    THEN emit(visit(emit(e, <<"(">>), c_node), <<")">>)
    ELSE visit(e, c_node)

\* visit_ColumnRef(node)
visit_ColumnRef(e, node) ==
    LET RECURSIVE parts(_)
        parts(fields) ==
            IF fields = <<>> THEN <<>>
            ELSE LET inner == UnwrapPb(Head(fields)) IN
                 (IF inner.type = "String" THEN <<Tok(quote_ident(inner.sval))>>
                  ELSE IF inner.type = "A_Star" THEN <<<<"*">>>>
                  ELSE <<>>) \o parts(Tail(fields))
    IN  emit(e, JoinText(parts(node.fields), <<".">>))

\* visit_A_Expr(node)
visit_A_Expr(e, node) ==
    LET op_name == IF node.name # <<>> THEN UnwrapPb(node.name[1]).sval ELSE ""
        kind == node.kind
        lexpr == Opt(node.lexpr)
        rexpr == Opt(node.rexpr)
    IN
    IF kind = "AEXPR_OP" THEN
        IF node.lexpr # <<>>
        THEN visit_expr(emit(visit_expr(e, node, lexpr, "left"),
                             <<" ">> \o Tok(op_name) \o <<" ">>),
                        node, rexpr, "right")
        ELSE visit_expr(emit(e, Tok(op_name) \o <<" ">>), node, rexpr, "none")
    ELSE IF kind = "AEXPR_IN" THEN
        LET in_kw == IF op_name = "<>" THEN <<"NOT", " ", "IN">> ELSE <<"IN">>
            e1 == emit(visit_expr(e, node, lexpr, "left"), <<" ">> \o in_kw \o <<" ", "(">>)
            inner == UnwrapPb(rexpr)
        IN  emit(IF inner.type = "List"
                 THEN emit_list(e1, inner.items, 1, "inline", "visit")
                 ELSE visit(e1, rexpr),
                 <<")">>)
    ELSE IF kind \in {"AEXPR_LIKE", "AEXPR_ILIKE"} THEN
        LET kw == IF kind = "AEXPR_LIKE" THEN "LIKE" ELSE "ILIKE" IN
        visit_expr(emit(visit_expr(e, node, lexpr, "left"), <<" ", kw, " ">>),
                   node, rexpr, "right")
    ELSE IF kind \in {"AEXPR_BETWEEN", "AEXPR_NOT_BETWEEN"} THEN
        LET kw == IF kind = "AEXPR_BETWEEN" THEN <<"BETWEEN">> ELSE <<"NOT", " ", "BETWEEN">>
            e1 == emit(visit_expr(e, node, lexpr, "left"), <<" ">> \o kw \o <<" ">>)
            args == UnwrapPb(rexpr)
        IN  IF args.type = "List" /\ Len(args.items) = 2
            THEN visit(emit(visit(e1, args.items[1]), <<" ", "AND", " ">>), args.items[2])
            ELSE visit(e1, rexpr)
    ELSE IF kind = "AEXPR_DISTINCT" THEN
        visit(emit(visit(e, lexpr), <<" ", "IS", " ", "DISTINCT", " ", "FROM", " ">>), rexpr)
    ELSE IF kind = "AEXPR_NOT_DISTINCT" THEN
        visit(emit(visit(e, lexpr),
                   <<" ", "IS", " ", "NOT", " ", "DISTINCT", " ", "FROM", " ">>),
              rexpr)
    ELSE IF kind = "AEXPR_NULLIF" THEN
        emit(visit(emit(visit(emit(e, <<"NULLIF", "(">>), lexpr), <<",", " ">>), rexpr),
             <<")">>)
    ELSE IF kind \in {"AEXPR_OP_ANY", "AEXPR_OP_ALL"} THEN
        LET quantifier == IF kind = "AEXPR_OP_ANY" THEN "ANY" ELSE "ALL" IN
        emit(visit(emit(visit_expr(e, node, lexpr, "left"),
                        <<" ">> \o Tok(op_name) \o <<" ", quantifier, "(">>),
                   rexpr),
             <<")">>)
    ELSE \* self._emit(self._deparse_node(node)) outside a try block
        LET Deparsed(r) ==
                IF r.status = "ok" THEN emit(e, r.text) ELSE [e EXCEPT !.raised = TRUE]
        IN  Deparsed(deparse_node(node))

\* The loops of visit_BoolExpr over the operands of AND and OR, from the i-th
\* on; ctx is _in_clause_context as the method found it.  In a clause a
\* parenthesised operand is visited with _in_clause_context False, which is
\* restored afterwards.
RECURSIVE visit_bool_args(_, _, _, _)
visit_bool_args(e, node, i, ctx) ==
    IF i > Len(node.args) THEN e
    ELSE LET op == IF node.boolop = "AND_EXPR" THEN "AND" ELSE "OR"
             arg == node.args[i]
             e1 == IF i = 1 THEN e
                   ELSE IF ctx THEN emit(newline(e), <<op, " ">>)
                   ELSE emit(e, <<" ", op, " ">>)
             e2 == emit(e1, <<"(">>)
             r == visit([e2 EXCEPT !.in_clause_context = FALSE], arg)
             e3 == IF ~needs_parens(node, arg, "none") THEN visit(e1, arg)
                   ELSE IF ctx
                   THEN emit([r EXCEPT !.in_clause_context = e2.in_clause_context], <<")">>)
                   ELSE emit(visit(e2, arg), <<")">>)
         IN  visit_bool_args(e3, node, i + 1, ctx)

\* visit_BoolExpr(node)
visit_BoolExpr(e, node) ==
    IF node.boolop = "NOT_EXPR" THEN
        LET e1 == emit(e, <<"NOT", " ">>)
            arg == node.args[1]
            r == visit([emit(e1, <<"(">>) EXCEPT !.in_clause_context = FALSE], arg)
        IN  IF needs_parens(node, arg, "none")
            THEN emit([r EXCEPT !.in_clause_context = e.in_clause_context], <<")">>)
            ELSE visit(e1, arg)
    ELSE visit_bool_args(e, node, 1, e.in_clause_context)

\* visit_CaseWhen(node)
visit_CaseWhen(e, node) ==
    newline(visit(emit(visit(emit(e, <<"WHEN", " ">>), node.expr), <<" ", "THEN", " ">>),
                  node.result))

\* visit_CaseExpr(node)
visit_CaseExpr(e, node) ==
    LET Arg(x) == IF node.arg = <<>> THEN x ELSE visit(emit(x, <<" ">>), node.arg[1])
        Default(x) ==
            IF node.defresult = <<>> THEN x
            ELSE newline(visit(emit(x, <<"ELSE", " ">>), node.defresult[1]))
    IN  emit(dedent(Default(emit_list(indent(newline(Arg(emit(e, <<"CASE">>)))),
                                      node.args, 1, "none", "visit"))),
             <<"END">>)

\* visit_SubLink(node)
visit_SubLink(e, node) ==
    LET Subselect(x) == emit(dedent(newline(visit(indent(newline(x)), node.subselect))),
                             <<")">>)
        op == IF node.oper_name # <<>> THEN UnwrapPb(node.oper_name[1]).sval ELSE "="
        quantifier == IF node.sub_link_type = "ANY_SUBLINK" THEN "ANY" ELSE "ALL"
        Deparsed(r) == IF r.status = "ok" THEN emit(e, r.text) ELSE [e EXCEPT !.raised = TRUE]
    IN  CASE node.sub_link_type = "EXISTS_SUBLINK" ->
                 Subselect(emit(e, <<"EXISTS", " ", "(">>))
          [] node.sub_link_type \in {"ANY_SUBLINK", "ALL_SUBLINK"} ->
                 Subselect(emit(visit(e, node.testexpr[1]),
                                <<" ", op, " ", quantifier, "(">>))
          [] node.sub_link_type = "EXPR_SUBLINK" -> Subselect(emit(e, <<"(">>))
          [] OTHER -> Deparsed(deparse_node(node))

\* _visit_res_target(node)
visit_res_target(e, rt) ==
    LET e1 == visit(e, rt.val) IN
    IF rt.name # "" THEN emit(e1, <<" ", "AS", " ", rt.name>>) ELSE e1

\* visit_SortBy(node)
visit_SortBy(e, node) ==
    LET e1 == visit(e, node.node)
        e2 == IF node.sortby_dir = "SORTBY_ASC" THEN emit(e1, <<" ", "ASC">>)
              ELSE IF node.sortby_dir = "SORTBY_DESC" THEN emit(e1, <<" ", "DESC">>)
              ELSE e1
    IN  IF node.sortby_nulls = "SORTBY_NULLS_FIRST"
        THEN emit(e2, <<" ", "NULLS", " ", "FIRST">>)
        ELSE IF node.sortby_nulls = "SORTBY_NULLS_LAST"
        THEN emit(e2, <<" ", "NULLS", " ", "LAST">>)
        ELSE e2

\* visit_RangeVar(node)
visit_RangeVar(e, node) ==
    LET parts == (IF node.schemaname # "" THEN <<Tok(quote_ident(node.schemaname))>>
                  ELSE <<>>) \o <<Tok(quote_ident(node.relname))>>
        e1 == emit(e, JoinText(parts, <<".">>))
    IN  IF node.alias # <<>>
        THEN emit(e1, <<" ">> \o Tok(quote_ident(node.alias[1].aliasname)))
        ELSE e1

\* _visit_cte(node)
visit_cte(e, cte) ==
    LET e1 == indent(newline(emit(e, Tok(cte.ctename) \o <<" ", "AS", " ", "(">>)))
        e2 == visit(e1, cte.ctequery)
    IN  emit(dedent(newline(e2)), <<")">>)

\* _visit_with_clause(wc)
visit_with_clause(e, wc) ==
    LET e1 == emit(e, <<"WITH">>)
        e2 == IF wc.recursive THEN emit(e1, <<" ", "RECURSIVE">>) ELSE e1
        e3 == emit_multiline_list(indent(newline(e2)), wc.ctes, "cte")
    IN  newline(dedent(e3))

\* _visit_from_list(from_clause)
visit_from_list(e, from_clause) == emit_multiline_list(e, from_clause, "unwrapped")

\* _visit_where_expr(node)
visit_where_expr(e, node) ==
    LET r == visit([e EXCEPT !.in_clause_context = TRUE], node)
    IN  [r EXCEPT !.in_clause_context = e.in_clause_context]

\* _emit_filter_clause(keyword, expr) with _dedent() also after a simple
\* condition.
emit_filter_clause_always_dedent(e, keyword, expr) ==
    LET inner == UnwrapPb(expr)
        is_compound == inner.type = "BoolExpr" /\ inner.boolop \in {"AND_EXPR", "OR_EXPR"}
        e1 == emit(newline(e), <<keyword>>)
    IN  IF is_compound
        THEN dedent(visit_where_expr(indent(newline(e1)), expr))
        ELSE dedent(visit(emit(e1, <<" ">>), expr))

\* _emit_filter_clause(keyword, expr)
emit_filter_clause(e, keyword, expr) ==
    LET inner == UnwrapPb(expr)
        is_compound == inner.type = "BoolExpr" /\ inner.boolop \in {"AND_EXPR", "OR_EXPR"}
        e1 == emit(newline(e), <<keyword>>)
    IN  IF is_compound
        THEN dedent(visit_where_expr(indent(newline(e1)), expr))
        ELSE visit(emit(e1, <<" ">>), expr)

\* _emit_from_clause(keyword, from_list)
emit_from_clause(e, keyword, from_list) ==
    LET e1 == emit(e, <<keyword>>) IN
    IF Len(from_list) = 1 /\ UnwrapPb(from_list[1]).type # "JoinExpr"
    THEN visit(emit(e1, <<" ">>), UnwrapPb(from_list[1]))
    ELSE dedent(visit_from_list(indent(newline(e1)), from_list))

\* An item list of a clause: inline when a single item, one per line otherwise.
emit_clause_items(e, items) ==
    IF Len(items) = 1
    THEN visit(emit(e, <<" ">>), items[1])
    ELSE dedent(emit_multiline_list(indent(newline(e)), items, "visit"))

\* One locking clause of visit_SelectStmt.
visit_locking_clause(e, lock) ==
    LET lc == UnwrapPb(lock)
        e1 == newline(e)
        strength_map ==
            CASE lc.strength = "LCS_FORKEYSHARE" -> <<"FOR", " ", "KEY", " ", "SHARE">>
              [] lc.strength = "LCS_FORSHARE" -> <<"FOR", " ", "SHARE">>
              [] lc.strength = "LCS_FORNOKEYUPDATE" ->
                     <<"FOR", " ", "NO", " ", "KEY", " ", "UPDATE">>
              [] lc.strength = "LCS_FORUPDATE" -> <<"FOR", " ", "UPDATE">>
    IN  IF lc.strength \notin {"LCS_FORKEYSHARE", "LCS_FORSHARE", "LCS_FORNOKEYUPDATE",
                               "LCS_FORUPDATE"}
        THEN [e1 EXCEPT !.raised = TRUE]
        ELSE LET e2 == emit(e1, strength_map)
                 e3 == IF lc.locked_rels # <<>>
                       THEN emit_inline_list(emit(e2, <<" ", "OF", " ">>), lc.locked_rels,
                                             "visit")
                       ELSE e2
             IN  IF lc.wait_policy = "LockWaitError" THEN emit(e3, <<" ", "NOWAIT">>)
                 ELSE IF lc.wait_policy = "LockWaitSkip"
                 THEN emit(e3, <<" ", "SKIP", " ", "LOCKED">>)
                 ELSE e3

\* The callbacks handed to the list loops: _visit_node ("visit"), _visit_node
\* of the unwrapped item, _visit_res_target and _visit_cte of the unwrapped
\* item, one parenthesised row of VALUES, one locking clause.
call_item(fn, e, item) ==
    CASE fn = "visit" -> visit(e, item)
      [] fn = "unwrapped" -> visit(e, UnwrapPb(item))
      [] fn = "res_target" -> visit_res_target(e, UnwrapPb(item))
      [] fn = "cte" -> visit_cte(e, UnwrapPb(item))
      [] fn = "locking" -> visit_locking_clause(e, item)
      [] fn = "values_row" ->
             LET vals == UnwrapPb(item)
                 e1 == emit(e, <<"(">>)
             IN  emit(IF vals.type = "List"
                      THEN emit_list(e1, vals.items, 1, "inline", "visit")
                      ELSE e1,
                      <<")">>)

(***************************************************************************)
(* format/select.py                                                        *)
(***************************************************************************)

\* visit_SelectStmt(node) with HAVING emitted before GROUP BY.
visit_SelectStmt_having_first(e, node) ==
    IF node.op # "SETOP_NONE" THEN
        LET op_str == CASE node.op = "SETOP_UNION" -> "UNION"
                        [] node.op = "SETOP_INTERSECT" -> "INTERSECT"
                        [] node.op = "SETOP_EXCEPT" -> "EXCEPT"
                        [] OTHER -> "UNION"
            e1 == newline(visit(e, node.larg[1]))
            e2 == emit(e1, <<op_str>> \o (IF node.all THEN <<" ", "ALL">> ELSE <<>>))
        IN  visit(newline(e2), node.rarg[1])
    ELSE IF node.values_lists # <<>> THEN
        dedent(emit_list(indent(newline(emit(e, <<"VALUES">>))), node.values_lists, 1,
                         "multiline", "values_row"))
    ELSE
        \* The clauses in their order, each on the formatter x as the clause
        \* before it leaves it; none runs after an exception.
        LET With(x) ==
                IF x.raised \/ node.with_clause = <<>> THEN x
                ELSE visit_with_clause(x, node.with_clause[1])
            Distinct(x) ==
                IF x.raised \/ node.distinct_clause = <<>> THEN x
                ELSE IF node.distinct_clause[1].node = <<>>
                THEN emit(x, <<" ", "DISTINCT">>)
                ELSE emit(emit_inline_list(emit(x, <<" ", "DISTINCT", " ", "ON", " ", "(">>),
                                           node.distinct_clause, "visit"),
                          <<")">>)
            \* Target list: inline when a single, single-line target; f is
            \* what _fmt returns for that target.
            Multiline(x) ==
                dedent(emit_multiline_list(indent(newline(x)), node.target_list,
                                           "res_target"))
            Single(f) ==
                IF "\n" \notin Range(f.result)
                THEN visit_res_target(emit(f.e, <<" ">>), UnwrapPb(node.target_list[1]))
                ELSE Multiline(f.e)
            Targets(x) ==
                IF x.raised THEN x
                ELSE IF Len(node.target_list) = 1
                THEN Single(fmt(x, UnwrapPb(node.target_list[1])))
                ELSE Multiline(x)
            From(x) ==
                IF x.raised \/ node.from_clause = <<>> THEN x
                ELSE emit_from_clause(newline(x), "FROM", node.from_clause)
            Where(x) ==
                IF x.raised \/ node.where_clause = <<>> THEN x
                ELSE emit_filter_clause(x, "WHERE", node.where_clause[1])
            GroupBy(x) ==
                IF x.raised \/ node.group_clause = <<>> THEN x
                ELSE emit_clause_items(emit(newline(x), <<"GROUP", " ", "BY">>),
                                       node.group_clause)
            Having(x) ==
                IF x.raised \/ node.having_clause = <<>> THEN x
                ELSE emit_filter_clause(x, "HAVING", node.having_clause[1])
            OrderBy(x) ==
                IF x.raised \/ node.sort_clause = <<>> THEN x
                ELSE emit_clause_items(emit(newline(x), <<"ORDER", " ", "BY">>),
                                       node.sort_clause)
            Limit(x) ==
                IF x.raised \/ node.limit_count = <<>> THEN x
                ELSE visit(emit(newline(x), <<"LIMIT", " ">>), node.limit_count[1])
            Offset(x) ==
                IF x.raised \/ node.limit_offset = <<>> THEN x
                ELSE visit(emit(newline(x), <<"OFFSET", " ">>), node.limit_offset[1])
            Locking(x) ==
                IF x.raised THEN x
                ELSE emit_list(x, node.locking_clause, 1, "none", "locking")
        IN  Locking(Offset(Limit(OrderBy(GroupBy(Having(Where(From(Targets(Distinct(
                emit(With(e), <<"SELECT">>)))))))))))

\* visit_SelectStmt(node)
visit_SelectStmt(e, node) ==
    IF node.op # "SETOP_NONE" THEN
        LET op_str == CASE node.op = "SETOP_UNION" -> "UNION"
                        [] node.op = "SETOP_INTERSECT" -> "INTERSECT"
                        [] node.op = "SETOP_EXCEPT" -> "EXCEPT"
                        [] OTHER -> "UNION"
            e1 == newline(visit(e, node.larg[1]))
            e2 == emit(e1, <<op_str>> \o (IF node.all THEN <<" ", "ALL">> ELSE <<>>))
        IN  visit(newline(e2), node.rarg[1])
    ELSE IF node.values_lists # <<>> THEN
        dedent(emit_list(indent(newline(emit(e, <<"VALUES">>))), node.values_lists, 1,
                         "multiline", "values_row"))
    ELSE
        \* The clauses in their order, each on the formatter x as the clause
        \* before it leaves it; none runs after an exception.
        LET With(x) ==
                IF x.raised \/ node.with_clause = <<>> THEN x
                ELSE visit_with_clause(x, node.with_clause[1])
            Distinct(x) ==
                IF x.raised \/ node.distinct_clause = <<>> THEN x
                ELSE IF node.distinct_clause[1].node = <<>>
                THEN emit(x, <<" ", "DISTINCT">>)
                ELSE emit(emit_inline_list(emit(x, <<" ", "DISTINCT", " ", "ON", " ", "(">>),
                                           node.distinct_clause, "visit"),
                          <<")">>)
            \* Target list: inline when a single, single-line target; f is
            \* what _fmt returns for that target.
            Multiline(x) ==
                dedent(emit_multiline_list(indent(newline(x)), node.target_list,
                                           "res_target"))
            Single(f) ==
                IF "\n" \notin Range(f.result)
                THEN visit_res_target(emit(f.e, <<" ">>), UnwrapPb(node.target_list[1]))
                ELSE Multiline(f.e)
            Targets(x) ==
                IF x.raised THEN x
                ELSE IF Len(node.target_list) = 1
                THEN Single(fmt(x, UnwrapPb(node.target_list[1])))
                ELSE Multiline(x)
            From(x) ==
                IF x.raised \/ node.from_clause = <<>> THEN x
                ELSE emit_from_clause(newline(x), "FROM", node.from_clause)
            Where(x) ==
                IF x.raised \/ node.where_clause = <<>> THEN x
                ELSE emit_filter_clause(x, "WHERE", node.where_clause[1])
            GroupBy(x) ==
                IF x.raised \/ node.group_clause = <<>> THEN x
                ELSE emit_clause_items(emit(newline(x), <<"GROUP", " ", "BY">>),
                                       node.group_clause)
            Having(x) ==
                IF x.raised \/ node.having_clause = <<>> THEN x
                ELSE emit_filter_clause(x, "HAVING", node.having_clause[1])
            OrderBy(x) ==
                IF x.raised \/ node.sort_clause = <<>> THEN x
                ELSE emit_clause_items(emit(newline(x), <<"ORDER", " ", "BY">>),
                                       node.sort_clause)
            Limit(x) ==
                IF x.raised \/ node.limit_count = <<>> THEN x
                ELSE visit(emit(newline(x), <<"LIMIT", " ">>), node.limit_count[1])
            Offset(x) ==
                IF x.raised \/ node.limit_offset = <<>> THEN x
                ELSE visit(emit(newline(x), <<"OFFSET", " ">>), node.limit_offset[1])
            Locking(x) ==
                IF x.raised THEN x
                ELSE emit_list(x, node.locking_clause, 1, "none", "locking")
        IN  Locking(Offset(Limit(OrderBy(Having(GroupBy(Where(From(Targets(Distinct(
                emit(With(e), <<"SELECT">>)))))))))))

\* Visitor.visit(node) of the formatter: the visit_<TypeName> method of the
\* unwrapped message, generic_visit when the class has none.  Nothing runs
\* after an exception.
visit(e, node) ==
    LET inner == UnwrapPb(node) IN
    IF e.raised THEN e ELSE
    CASE inner.type = "SelectStmt" -> visit_SelectStmt(e, inner)
      [] inner.type = "A_Expr" -> visit_A_Expr(e, inner)
      [] inner.type = "BoolExpr" -> visit_BoolExpr(e, inner)
      [] inner.type = "ColumnRef" -> visit_ColumnRef(e, inner)
      [] inner.type = "ResTarget" -> visit_res_target(e, inner)
      [] inner.type = "RangeVar" -> visit_RangeVar(e, inner)
      [] inner.type = "SortBy" -> visit_SortBy(e, inner)
      [] inner.type = "CommonTableExpr" -> visit_cte(e, inner)
      [] inner.type = "CaseExpr" -> visit_CaseExpr(e, inner)
      [] inner.type = "CaseWhen" -> visit_CaseWhen(e, inner)
      [] inner.type = "SubLink" -> visit_SubLink(e, inner)
      [] inner.type = "String" -> emit(e, Tok(inner.sval))
      [] OTHER -> generic_visit(e, inner)

(***************************************************************************)
(* parse.py: the engine's lexer and expression grammar                     *)
(***************************************************************************)

Kw(word) == [k |-> "kw", v |-> word]
Ident(name) == [k |-> "id", v |-> name]
Sym(s) == [k |-> "sym", v |-> s]

\* The token of one piece of text: a key word in either case, an unquoted
\* identifier folded to lower case, a quoted identifier as written, or an
\* operator or punctuation mark.
LexTok(tok) ==
    LET Keywords ==
            {"SELECT", "DISTINCT", "FROM", "WHERE", "GROUP", "BY", "HAVING", "ORDER",
             "ASC", "DESC", "LIMIT", "OFFSET", "UNION", "ALL", "AS", "AND", "OR", "NOT",
             "LIKE", "SHOW"}
    IN
    IF tok \in Keywords THEN Kw(tok)
    ELSE IF tok \in Names THEN
        IF ScanReservedKeyword(Lower(tok)) THEN Kw("SELECT") ELSE Ident(Lower(tok))
    ELSE IF \E n \in Names : Quoted(n) = tok THEN
        Ident(CHOOSE n \in Names : Quoted(n) = tok)
    ELSE Sym(tok)

\* The tokens of a text; white space separates tokens and is dropped.
Lex(text) ==
    LET NotSpace(piece) == piece \notin {" ", "\n"}
        pieces == SelectSeq(text, NotSpace)
    IN  [i \in 1..Len(pieces) |-> LexTok(pieces[i])]

\* The outcome of a grammar rule: whether it matched, the message built and
\* the tokens left.
Fail == [ok |-> FALSE, node |-> PbEmptyNode, rest |-> <<>>]
Ok(node, rest) == [ok |-> TRUE, node |-> node, rest |-> rest]

At(toks, tok) == toks # <<>> /\ toks[1] = tok
Drop(toks, n) == SubSeq(toks, n + 1, Len(toks))

\* The binary operator at the head of the tokens with its level and
\* associativity in gram.y; len = 0 when there is none.
BinOpAt(toks) ==
    CASE At(toks, Kw("OR")) ->
            [len |-> 1, level |-> OR, assoc |-> "left", kind |-> "OR_EXPR", name |-> ""]
      [] At(toks, Kw("AND")) ->
            [len |-> 1, level |-> AND, assoc |-> "left", kind |-> "AND_EXPR", name |-> ""]
      [] At(toks, Sym("=")) ->
            [len |-> 1, level |-> COMPARISON, assoc |-> "nonassoc", kind |-> "AEXPR_OP",
             name |-> "="]
      [] At(toks, Kw("LIKE")) ->
            [len |-> 1, level |-> PATTERN, assoc |-> "nonassoc", kind |-> "AEXPR_LIKE",
             name |-> "~~"]
      [] At(toks, Kw("NOT")) /\ At(Drop(toks, 1), Kw("LIKE")) ->
            [len |-> 2, level |-> PATTERN, assoc |-> "nonassoc", kind |-> "AEXPR_LIKE",
             name |-> "!~~"]
      [] At(toks, Sym("+")) \/ At(toks, Sym("-")) ->
            [len |-> 1, level |-> ADD_SUB, assoc |-> "left", kind |-> "AEXPR_OP",
             name |-> toks[1].v]
      [] At(toks, Sym("*")) ->
            [len |-> 1, level |-> MUL_DIV, assoc |-> "left", kind |-> "AEXPR_OP",
             name |-> "*"]
      [] OTHER ->
            [len |-> 0, level |-> 0, assoc |-> "nonassoc", kind |-> "", name |-> ""]

\* a_expr: an operand followed by the binary operators of at least min_level.
RECURSIVE ParseExpr(_, _)
RECURSIVE ParseBinary(_, _)

\* A parenthesised expression, NOT a_expr, - a_expr or a column name.
ParseOperand(toks) ==
    LET Closed(r) == IF r.ok /\ At(r.rest, Sym(")")) THEN Ok(r.node, Tail(r.rest)) ELSE Fail
        Negated(r) ==
            IF r.ok THEN Ok(PbBoolExpr("NOT_EXPR", <<PbNode(r.node)>>), r.rest) ELSE Fail
        Minus(r) ==
            IF r.ok
            THEN Ok(PbAExpr("AEXPR_OP", <<PbNode(PbString("-"))>>, <<>>, <<PbNode(r.node)>>),
                    r.rest)
            ELSE Fail
    IN
    IF At(toks, Sym("(")) THEN Closed(ParseExpr(Tail(toks), 0))
    ELSE IF At(toks, Kw("NOT")) THEN Negated(ParseExpr(Tail(toks), NOT))
    ELSE IF At(toks, Sym("-")) THEN Minus(ParseExpr(Tail(toks), UMINUS))
    ELSE IF toks # <<>> /\ toks[1].k = "id" THEN
        Ok([type |-> "ColumnRef", fields |-> <<PbNode(PbString(toks[1].v))>>], Tail(toks))
    ELSE Fail

\* The operator op after the operand parsed in p.  The right operand takes
\* only operators of a higher level; a second operator of the level of a
\* non-associative one is a syntax error.  AND and OR extend a left operand
\* that is already the same operator (makeAndExpr, makeOrExpr); parentheses
\* leave no trace in the tree.
ParseOperator(p, op, min_level) ==
    LET MakeBin(l, r) ==
            IF op.kind \in {"AND_EXPR", "OR_EXPR"} THEN
                IF l.type = "BoolExpr" /\ l.boolop = op.kind
                THEN [l EXCEPT !.args = Append(@, PbNode(r))]
                ELSE PbBoolExpr(op.kind, <<PbNode(l), PbNode(r)>>)
            ELSE PbAExpr(op.kind, <<PbNode(PbString(op.name))>>, <<PbNode(l)>>,
                         <<PbNode(r)>>)
        Rest(r) ==
            IF ~r.ok THEN Fail
            ELSE IF op.assoc = "nonassoc" /\ BinOpAt(r.rest).len > 0
                    /\ BinOpAt(r.rest).level = op.level
            THEN Fail
            ELSE ParseBinary(Ok(MakeBin(p.node, r.node), r.rest), min_level)
    IN
    IF op.len = 0 \/ op.level < min_level THEN p
    ELSE Rest(ParseExpr(Drop(p.rest, op.len), op.level + 1))

\* The binary operators after the operand parsed in p.
ParseBinary(p, min_level) ==
    IF ~p.ok THEN Fail ELSE ParseOperator(p, BinOpAt(p.rest), min_level)

ParseExpr(toks, min_level) == ParseBinary(ParseOperand(toks), min_level)

(***************************************************************************)
(* parse.py: the engine's statement grammar                                *)
(***************************************************************************)

\* One item of a list, by rule: "expr" is a_expr; "target" is
\* a_expr [ AS ColLabel ]; "table_ref" is a relation name; "sortby" is
\* a_expr [ ASC | DESC ].
ParseItem(rule, toks) ==
    LET Item(r) ==
            IF ~r.ok THEN Fail
            ELSE IF rule = "target" THEN
                IF At(r.rest, Kw("AS")) THEN
                    IF Len(r.rest) >= 2 /\ r.rest[2].k = "id"
                    THEN Ok(PbResTarget(r.rest[2].v, PbNode(r.node)), Drop(r.rest, 2))
                    ELSE Fail
                ELSE Ok(PbResTarget("", PbNode(r.node)), r.rest)
            ELSE IF rule = "sortby" THEN
                IF At(r.rest, Kw("ASC"))
                THEN Ok(PbSortBy(PbNode(r.node), "SORTBY_ASC", "SORTBY_NULLS_DEFAULT"),
                        Tail(r.rest))
                ELSE IF At(r.rest, Kw("DESC"))
                THEN Ok(PbSortBy(PbNode(r.node), "SORTBY_DESC", "SORTBY_NULLS_DEFAULT"),
                        Tail(r.rest))
                ELSE Ok(PbSortBy(PbNode(r.node), "SORTBY_DEFAULT", "SORTBY_NULLS_DEFAULT"),
                        r.rest)
            ELSE r
    IN
    IF rule = "table_ref" THEN
        IF toks # <<>> /\ toks[1].k = "id"
        THEN Ok([type |-> "RangeVar", schemaname |-> "", relname |-> toks[1].v,
                 alias |-> <<>>],
                Tail(toks))
        ELSE Fail
    ELSE Item(ParseExpr(toks, 0))

\* item { "," item }: the messages of the items after those in acc, each in
\* a Node.
RECURSIVE ParseList(_, _, _)
ParseList(rule, toks, acc) ==
    LET More(r) ==
            IF ~r.ok THEN Fail
            ELSE IF At(r.rest, Sym(","))
            THEN ParseList(rule, Tail(r.rest), Append(acc, PbNode(r.node)))
            ELSE Ok(Append(acc, PbNode(r.node)), r.rest)
    IN  More(ParseItem(rule, toks))

\* An optional clause of the statement in s.node: when the key words kws are
\* next, what follows is a list of items (many) or one expression, and goes
\* into the statement's field; otherwise s is unchanged.
OptionalClause(s, kws, rule, many, field) ==
    LET Put(r) ==
            IF r.ok
            THEN Ok([s.node EXCEPT ![field] = IF many THEN r.node ELSE <<PbNode(r.node)>>],
                    r.rest)
            ELSE Fail
    IN
    IF ~s.ok THEN Fail
    ELSE IF Len(s.rest) >= Len(kws) /\ SubSeq(s.rest, 1, Len(kws)) = kws THEN
        Put(IF many THEN ParseList(rule, Drop(s.rest, Len(kws)), <<>>)
            ELSE ParseItem(rule, Drop(s.rest, Len(kws))))
    ELSE s

\* SELECT [DISTINCT] target_list: the statement with these two set.
ParseTargets(toks) ==
    LET distinct == At(Tail(toks), Kw("DISTINCT"))
        Targets(t) ==
            IF ~t.ok THEN Fail
            ELSE Ok([PbSelectStmt EXCEPT
                        !.distinct_clause = IF distinct THEN <<PbEmptyNode>> ELSE <<>>,
                        !.target_list = t.node],
                    t.rest)
    IN  IF ~At(toks, Kw("SELECT")) THEN Fail
        ELSE Targets(ParseList("target", Drop(toks, IF distinct THEN 2 ELSE 1), <<>>))

\* simple_select: SELECT [DISTINCT] target_list [FROM] [WHERE] [GROUP BY] [HAVING]
ParseSimpleSelect(toks) ==
    OptionalClause(
        OptionalClause(
            OptionalClause(
                OptionalClause(ParseTargets(toks),
                               <<Kw("FROM")>>, "table_ref", TRUE, "from_clause"),
                <<Kw("WHERE")>>, "expr", FALSE, "where_clause"),
            <<Kw("GROUP"), Kw("BY")>>, "expr", TRUE, "group_clause"),
        <<Kw("HAVING")>>, "expr", FALSE, "having_clause")

\* select_clause: simple_select { UNION [ALL] simple_select }, grouping to
\* the left; s is the select_clause parsed so far.
RECURSIVE ParseSetOps(_)
ParseSetOps(s) ==
    LET all == At(Tail(s.rest), Kw("ALL"))
        Union(r) ==
            IF ~r.ok THEN Fail
            ELSE ParseSetOps(Ok([PbSelectStmt EXCEPT
                                    !.op = "SETOP_UNION", !.all = all,
                                    !.larg = <<s.node>>, !.rarg = <<r.node>>],
                                r.rest))
    IN  IF ~s.ok THEN Fail
        ELSE IF ~At(s.rest, Kw("UNION")) THEN s
        ELSE Union(ParseSimpleSelect(Drop(s.rest, IF all THEN 2 ELSE 1)))

\* select_no_parens: select_clause [ORDER BY] [LIMIT] [OFFSET]; the options
\* go into the statement of the whole set operation (insertSelectOptions).
ParseSelect(toks) ==
    OptionalClause(
        OptionalClause(
            OptionalClause(ParseSetOps(ParseSimpleSelect(toks)),
                           <<Kw("ORDER"), Kw("BY")>>, "sortby", TRUE, "sort_clause"),
            <<Kw("LIMIT")>>, "expr", FALSE, "limit_count"),
        <<Kw("OFFSET")>>, "expr", FALSE, "limit_offset")

\* stmt: a SELECT or SHOW var_name, up to the end of the statement.
ParseStmt(toks) ==
    LET Whole(r) == IF r.ok /\ r.rest = <<>> THEN r ELSE Fail
    IN  Whole(IF At(toks, Kw("SHOW")) THEN
                  IF Len(toks) >= 2 /\ toks[2].k = "id"
                  THEN Ok([type |-> "VariableShowStmt", name |-> toks[2].v], Drop(toks, 2))
                  ELSE Fail
              ELSE ParseSelect(toks))

\* parse(sql): the parse tree of a text, or the error the engine reports.
\* The statements are separated by ";"; an empty one is skipped.
parse(text) ==
    LET RECURSIVE SplitStmts(_)
        SplitStmts(toks) ==
            LET n == CHOOSE i \in 1..(Len(toks) + 1) :
                         /\ i = Len(toks) + 1 \/ toks[i] = Sym(";")
                         /\ \A j \in 1..(i - 1) : toks[j] # Sym(";")
            IN  IF toks = <<>> THEN <<>>
                ELSE (IF n = 1 THEN <<>> ELSE <<SubSeq(toks, 1, n - 1)>>)
                     \o SplitStmts(SubSeq(toks, n + 1, Len(toks)))
        Result(rs) ==
            IF \E i \in 1..Len(rs) : ~rs[i].ok
            THEN [status |-> "error", tree |-> [type |-> "ParseResult", stmts |-> <<>>]]
            ELSE [status |-> "ok",
                  tree |-> [type |-> "ParseResult",
                            stmts |-> [i \in 1..Len(rs) |->
                                          [type |-> "RawStmt", stmt |-> PbNode(rs[i].node)]]]]
        segs == SplitStmts(Lex(text))
    IN  Result([i \in 1..Len(segs) |-> ParseStmt(segs[i])])

(***************************************************************************)
(* format/__init__.py                                                      *)
(***************************************************************************)

\* format_sql(tree) joining the statements with ";" and a single new line.
format_sql_tree_single_newline(parse_result) ==
    LET Joined(parts) ==
            IF Len(parts) > 0 THEN JoinText(parts, <<";", "\n">>) \o <<";">> ELSE <<>>
        Output(out) ==
            IF \E i \in 1..Len(out) : out[i].raised THEN Raised
            ELSE Returned(Joined([i \in 1..Len(out) |-> get_output(out[i])]))
        \* for raw_stmt in tree.stmts: the one formatter, reset before each
        \* statement; out holds the formatter as each statement leaves it.
        RECURSIVE Loop(_, _, _)
        Loop(i, fm, out) ==
            LET Rest(r) == Loop(i + 1, r, Append(out, r))
            IN  IF i > Len(parse_result.stmts) THEN out
                ELSE Rest(visit(reset(fm), UnwrapPb(parse_result.stmts[i].stmt)))
    IN  Output(Loop(1, NewFormatter, <<>>))

\* format_sql(tree) for a ParseResult; an exception in a statement ends the
\* call, whatever the loop would have done after it.
format_sql_tree(parse_result) ==
    LET Joined(parts) ==
            IF Len(parts) > 0 THEN JoinText(parts, <<";", "\n", "\n">>) \o <<";">> ELSE <<>>
        Output(out) ==
            IF \E i \in 1..Len(out) : out[i].raised THEN Raised
            ELSE Returned(Joined([i \in 1..Len(out) |-> get_output(out[i])]))
        \* for raw_stmt in tree.stmts: the one formatter, reset before each
        \* statement; out holds the formatter as each statement leaves it.
        RECURSIVE Loop(_, _, _)
        Loop(i, fm, out) ==
            LET Rest(r) == Loop(i + 1, r, Append(out, r))
            IN  IF i > Len(parse_result.stmts) THEN out
                ELSE Rest(visit(reset(fm), UnwrapPb(parse_result.stmts[i].stmt)))
    IN  Output(Loop(1, NewFormatter, <<>>))

\* format_sql(sql) for a string: PgQueryError when it cannot be parsed.
format_sql(text) ==
    LET Format(p) == IF p.status = "error" THEN Raised ELSE format_sql_tree(p.tree)
    IN  Format(parse(text))

\* deparse(parse(sql))
deparse_parse(text) ==
    LET Deparsed(p) == IF p.status = "error" THEN Raised ELSE Returned(deparse(p.tree))
    IN  Deparsed(parse(text))

(***************************************************************************)
(* tests/test_format.py: the SQL given to format_sql                       *)
(***************************************************************************)

\* The largest number of operators in an expression given to format_sql.
MaxOps == 2

\* The expressions of exactly n operators over the columns a and b.  An
\* operand that is an operator expression is written in parentheses.
RECURSIVE ExprTexts(_)
ExprTexts(n) ==
    LET Parens(text) == IF Len(text) = 1 THEN text ELSE <<"(">> \o text \o <<")">>
        UnaryOpTexts == {<<"NOT", " ">>, <<"-", " ">>}
        BinaryOpTexts ==
            {<<" ", "OR", " ">>, <<" ", "AND", " ">>, <<" ", "=", " ">>,
             <<" ", "LIKE", " ">>, <<" ", "NOT", " ", "LIKE", " ">>, <<" ", "+", " ">>,
             <<" ", "*", " ">>}
    IN
    IF n = 0 THEN {<<"a">>, <<"b">>}
    ELSE {u \o Parens(x) : u \in UnaryOpTexts, x \in ExprTexts(n - 1)}
         \cup UNION {{Parens(x) \o o \o Parens(y) :
                          o \in BinaryOpTexts, x \in ExprTexts(i), y \in ExprTexts(n - 1 - i)} :
                     i \in 0..(n - 1)}

\* The SQL texts given to format_sql.
InputSqls ==
    LET ExprsUpTo(n) == UNION {ExprTexts(i) : i \in 0..n}
        Optional(texts) == texts \cup {<<>>}
        \* SELECT <expression>
        ExprSelects == {<<"SELECT", " ">> \o x : x \in ExprsUpTo(MaxOps)}
        \* SELECT <targets> FROM t WHERE <expression>
        WhereSelects ==
            {<<"SELECT", " ">> \o tl \o <<" ", "FROM", " ", "t", " ", "WHERE", " ">> \o x :
                tl \in {<<"a">>, <<"a", ",", " ", "b">>}, x \in ExprsUpTo(1)}
        \* SELECT [DISTINCT] a [AS <alias>] FROM <table> and the clauses after it
        ClauseSelects ==
            {<<"SELECT">> \o d \o <<" ", "a">> \o al \o <<" ", "FROM", " ">> \o f \o g \o h
                 \o o \o l :
                d \in Optional({<<" ", "DISTINCT">>}),
                al \in Optional({<<" ", "AS", " ", n>> :
                                    n \in {"b", "foo", "\"Foo\"", "\"select\""}}),
                f \in {<<"t">>, <<"\"Foo\"">>},
                g \in Optional({<<" ", "GROUP", " ", "BY", " ", "a">>,
                                <<" ", "GROUP", " ", "BY", " ", "a", ",", " ", "b">>}),
                h \in Optional({<<" ", "HAVING", " ", "a", " ", "=", " ", "b">>}),
                o \in Optional({<<" ", "ORDER", " ", "BY", " ", "a">>,
                                <<" ", "ORDER", " ", "BY", " ", "a", " ", "DESC", ",", " ",
                                  "b", " ", "ASC">>}),
                l \in Optional({<<" ", "LIMIT", " ", "a">>,
                                <<" ", "LIMIT", " ", "a", " ", "OFFSET", " ", "b">>})}
        \* SELECT a UNION [ALL] SELECT b [ORDER BY a] [LIMIT a]
        SetOpSelects ==
            {<<"SELECT", " ", "a", " ", "UNION">> \o all \o <<" ", "SELECT", " ", "b">>
                 \o o \o l :
                all \in Optional({<<" ", "ALL">>}),
                o \in Optional({<<" ", "ORDER", " ", "BY", " ", "a">>}),
                l \in Optional({<<" ", "LIMIT", " ", "a">>})}
        \* A statement without a handler, two statements in one text, and
        \* texts without a statement.
        OtherSqls ==
            {<<>>, <<";">>,
             <<"SHOW", " ", "a">>,
             <<"SELECT", " ", "a", ";", " ", "SELECT", " ", "b">>,
             <<"SHOW", " ", "t", ";", " ", "SELECT", " ", "a", " ", "FROM", " ", "t", ";">>}
    IN  ExprSelects \cup WhereSelects \cup ClauseSelects \cup SetOpSelects \cup OtherSqls

\* test_round_trip_equivalence and test_idempotency on one input.
InitFmt ==
    /\ sql \in InputSqls
    /\ fpc = "start"
    /\ once = Unset
    /\ twice = Unset
    /\ canon_sql = Unset
    /\ canon_once = Unset

\* formatted = format_sql(sql)
FormatSql ==
    /\ fpc = "start"
    /\ once' = format_sql(sql)
    /\ fpc' = "formatted"
    /\ UNCHANGED <<sql, twice, canon_sql, canon_once>>

\* deparse(parse(formatted)) and deparse(parse(sql))
RoundTrip ==
    /\ fpc = "formatted"
    /\ once.status = "ok"
    /\ canon_once = Unset
    /\ canon_once' = deparse_parse(once.text)
    /\ canon_sql' = deparse_parse(sql)
    /\ UNCHANGED <<sql, fpc, once, twice>>

\* twice = format_sql(once)
FormatAgain ==
    /\ fpc = "formatted"
    /\ once.status = "ok"
    /\ twice = Unset
    /\ twice' = format_sql(once.text)
    /\ UNCHANGED <<sql, fpc, once, canon_sql, canon_once>>

(***************************************************************************)
(* tests/test_format.py: format_sql given a ParseResult                    *)
(***************************************************************************)

\* The parse trees given to format_sql: one SELECT statement each, as the
\* engine builds it.
FormatTrees ==
    LET Col(name) == [type |-> "ColumnRef", fields |-> <<PbNode(PbString(name))>>]
        Op(sym, l, r) ==
            PbAExpr("AEXPR_OP", <<PbNode(PbString(sym))>>, <<PbNode(l)>>, <<PbNode(r)>>)
        Bool(boolop, list) ==
            PbBoolExpr(boolop, [i \in 1..Len(list) |-> PbNode(list[i])])
        Target(val) == PbNode(PbResTarget("", PbNode(val)))
        Sort(val, dir) == PbNode(PbSortBy(PbNode(val), dir, "SORTBY_NULLS_DEFAULT"))
        Table(name) ==
            PbNode([type |-> "RangeVar", schemaname |-> "", relname |-> name,
                    alias |-> <<>>])
        \* CASE WHEN a THEN b END
        Case ==
            [type |-> "CaseExpr", arg |-> <<>>,
             args |-> <<PbNode([type |-> "CaseWhen", expr |-> PbNode(Col("a")),
                                result |-> PbNode(Col("b"))])>>,
             defresult |-> <<>>]
        \* CASE WHEN cond THEN b END
        CaseOf(cond) ==
            [type |-> "CaseExpr", arg |-> <<>>,
             args |-> <<PbNode([type |-> "CaseWhen", expr |-> PbNode(cond),
                                result |-> PbNode(Col("b"))])>>,
             defresult |-> <<>>]
        \* a COLLATE "C" and CURRENT_DATE: kinds without a visit method
        Collate ==
            [type |-> "CollateClause", arg |-> <<PbNode(Col("a"))>>,
             collname |-> <<PbNode(PbString("C"))>>]
        CurrentDate == [type |-> "SQLValueFunction"]
        \* a SIMILAR TO b
        Similar ==
            PbAExpr("AEXPR_SIMILAR", <<PbNode(PbString("~"))>>, <<PbNode(Col("a"))>>,
                    <<PbNode(PbLeaf("FuncCall"))>>)
        Eq == Op("=", Col("a"), Col("b"))
        AndAll == Bool("AND_EXPR", <<Eq, Col("a"), Col("b")>>)
        OrAll == Bool("OR_EXPR", <<Col("a"), Eq>>)
        AndOfOr == Bool("AND_EXPR", <<Bool("OR_EXPR", <<Col("a"), Col("b")>>), Eq>>)
        OrOfAnd == Bool("OR_EXPR", <<Bool("AND_EXPR", <<Col("a"), Col("b")>>), Eq>>)
        \* (SELECT val FROM t), EXISTS (SELECT val FROM t)
        Sub(kind, val) ==
            [type |-> "SubLink", sub_link_type |-> kind, testexpr |-> <<>>,
             oper_name |-> <<>>,
             subselect |-> PbNode([PbSelectStmt EXCEPT !.target_list = <<Target(val)>>,
                                                       !.from_clause = <<Table("t")>>])]
        \* WITH c AS (SELECT a)
        With ==
            [type |-> "WithClause", recursive |-> FALSE,
             ctes |-> <<PbNode([type |-> "CommonTableExpr", ctename |-> "c",
                                ctequery |-> PbNode([PbSelectStmt EXCEPT
                                                        !.target_list =
                                                            <<Target(Col("a"))>>])])>>]
        ForUpdate ==
            PbNode([type |-> "LockingClause", strength |-> "LCS_FORUPDATE",
                    locked_rels |-> <<>>, wait_policy |-> "LockWaitBlock"])
        Optional(vals) == {<<>>} \cup {<<v>> : v \in vals}
        \* every subset of the clauses, each in its simplest form
        ClauseSubsets ==
            {[PbSelectStmt EXCEPT
                 !.with_clause = w, !.distinct_clause = d,
                 !.target_list = <<Target(Col("a"))>>, !.from_clause = f,
                 !.where_clause = wh, !.group_clause = g, !.having_clause = h,
                 !.sort_clause = s, !.limit_count = l, !.limit_offset = o,
                 !.locking_clause = lk] :
                w \in Optional({With}), d \in Optional({PbEmptyNode}),
                f \in Optional({Table("t")}), wh \in Optional({PbNode(Eq)}),
                g \in Optional({PbNode(Col("a"))}), h \in Optional({PbNode(Eq)}),
                s \in Optional({Sort(Col("a"), "SORTBY_DEFAULT")}),
                l \in Optional({PbNode(Col("a"))}), o \in Optional({PbNode(Col("b"))}),
                lk \in Optional({ForUpdate})}
        \* lists of one and of two items, and single targets of every kind
        ListLayouts ==
            {[PbSelectStmt EXCEPT
                 !.target_list = tl, !.from_clause = <<Table("t")>>,
                 !.group_clause = g, !.sort_clause = s] :
                tl \in {<<Target(Col("a"))>>, <<Target(Col("a")), Target(Col("b"))>>,
                        <<Target(Case)>>, <<Target(Collate)>>, <<Target(CurrentDate)>>,
                        <<Target(Similar)>>, <<Target(AndAll)>>},
                g \in {<<>>, <<PbNode(Col("a"))>>, <<PbNode(Col("a")), PbNode(Col("b"))>>},
                s \in {<<>>, <<Sort(Col("a"), "SORTBY_DESC")>>,
                       <<Sort(Col("a"), "SORTBY_DESC"), Sort(Col("b"), "SORTBY_DEFAULT")>>}}
        \* conditions of WHERE and HAVING
        Filters ==
            {[PbSelectStmt EXCEPT
                 !.target_list = <<Target(Col("a"))>>, !.from_clause = <<Table("t")>>,
                 !.where_clause = wh, !.having_clause = h] :
                wh \in Optional({PbNode(c) : c \in {Eq, AndAll, OrAll, AndOfOr, OrOfAnd}}),
                h \in Optional({PbNode(c) : c \in {Eq, AndAll, OrAll, AndOfOr, OrOfAnd}})}
        \* aliases, columns and tables whose names need quoting or do not
        Identifiers ==
            {[PbSelectStmt EXCEPT
                 !.target_list = <<PbNode(PbResTarget(n, PbNode(Col(c))))>>,
                 !.from_clause = <<Table(r)>>] :
                n \in {"", "b", "Foo", "select"}, c \in {"a", "Foo"},
                r \in {"t", "Foo", "select"}}
        \* subqueries in the target list and in the condition of WHERE
        Subqueries ==
            {[PbSelectStmt EXCEPT
                 !.target_list = <<Target(tv)>>, !.from_clause = <<Table("t")>>,
                 !.where_clause = wh] :
                tv \in {Col("a"), Sub("EXPR_SUBLINK", Col("a")), Sub("EXPR_SUBLINK", Case)},
                wh \in Optional({PbNode(c) :
                         c \in {Sub("EXISTS_SUBLINK", Col("a")),
                                Bool("AND_EXPR", <<Col("a"), Sub("EXISTS_SUBLINK", Col("a"))>>),
                                Bool("AND_EXPR", <<Col("a"), Sub("EXISTS_SUBLINK", AndAll)>>),
                                Bool("OR_EXPR", <<Col("a"), CaseOf(OrAll)>>)}})}
    IN  {[type |-> "ParseResult",
          stmts |-> <<[type |-> "RawStmt", stmt |-> PbNode(stmt)]>>] :
            stmt \in ClauseSubsets \cup ListLayouts \cup Filters \cup Identifiers
                      \cup Subqueries}

\* tree = parse(...): the ParseResult format_sql is called with.
InitFormatTree ==
    /\ sql \in FormatTrees
    /\ fpc = "start"
    /\ once = Unset
    /\ twice = Unset
    /\ canon_sql = Unset
    /\ canon_once = Unset

\* format_sql(tree) with the fallback's container put around the statement
\* of the tree itself instead of a copy of it.
FormatParseResult_wrapping_in_place ==
    /\ fpc = "start"
    /\ once' = format_sql_tree(sql)
    /\ fpc' = "formatted"
    /\ sql' = [sql EXCEPT !.stmts[1].stmt = PbNode([type |-> "RawStmt", stmt |-> @])]
    /\ UNCHANGED <<twice, canon_sql, canon_once>>

\* result = format_sql(tree)
FormatParseResult ==
    /\ fpc = "start"
    /\ once' = format_sql_tree(sql)
    /\ fpc' = "formatted"
    /\ UNCHANGED <<sql, twice, canon_sql, canon_once>>

(***************************************************************************)
(* format/base.py: the emit helpers called one by one                      *)
(***************************************************************************)

\* The deepest indentation and the longest buffer of the emitter runs.
MaxDepth == 2
MaxParts == 9

\* The texts handed to _emit: nothing, a lone new line, a word, and a string
\* constant that holds a new line (visit_A_Const emits it as it is).
EmitTexts == {<<>>, <<"\n">>, <<"x">>, <<"'a", "\n", "b'">>}

IdleEmit == formatter = NewFormatter

\* formatter = _SqlFormatter()
InitEmit == formatter = NewFormatter

\* self._emit(text)
EmitCall ==
    \E text \in EmitTexts :
        /\ Len(formatter.parts) + 2 * formatter.depth + Len(text) <= MaxParts
        /\ formatter' = emit(formatter, text)

\* self._newline()
NewlineCall ==
    /\ Len(formatter.parts) < MaxParts
    /\ formatter' = newline(formatter)

\* self._indent()
IndentCall ==
    /\ formatter.depth < MaxDepth
    /\ formatter' = indent(formatter)

\* self._dedent(); the handlers call it after _indent() only.
DedentCall ==
    /\ formatter.depth > 0
    /\ formatter' = dedent(formatter)

NextEmit ==
    \/ EmitCall /\ UNCHANGED <<tree, precVars, walkVars, visitVars, fmtVars, quoteVars, ddlVars>>
    \/ NewlineCall /\ UNCHANGED <<tree, precVars, walkVars, visitVars, fmtVars, quoteVars, ddlVars>>
    \/ IndentCall /\ UNCHANGED <<tree, precVars, walkVars, visitVars, fmtVars, quoteVars, ddlVars>>
    \/ DedentCall /\ UNCHANGED <<tree, precVars, walkVars, visitVars, fmtVars, quoteVars, ddlVars>>

IdleQuote == cache = <<>> /\ callers = <<>>

IdleDdl == ddl = <<>> /\ calls = <<>>

(***************************************************************************)
(* format/utils.py: _needs_quoting behind functools.lru_cache, called by   *)
(* format_sql running in several threads                                   *)
(***************************************************************************)

\* The size of the cache, 2 standing for lru_cache(maxsize=256), the threads
\* that call format_sql, and the calls each of them makes.
maxsize == 2
Threads == 2
MaxRuns == 2

\* parse("SELECT <column> FROM <table>")
IdentifierTree(column, table) ==
    [type |-> "ParseResult",
     stmts |-> <<[type |-> "RawStmt",
                  stmt |-> PbNode([PbSelectStmt EXCEPT
                      !.target_list =
                          <<PbNode(PbResTarget("", PbNode(
                              [type |-> "ColumnRef",
                               fields |-> <<PbNode(PbString(column))>>])))>>,
                      !.from_clause =
                          <<PbNode([type |-> "RangeVar", schemaname |-> "",
                                    relname |-> table, alias |-> <<>>])>>])]>>]

\* The statements the threads format: more names than the cache holds.
QuoteColumns == {"a", "Foo"}
QuoteTables == {"t", "Foo", "select"}

\* key in cache
CacheHas(c, name) == \E i \in 1..Len(c) : c[i].key = name

\* cache_get(key) that answers with the entry used last, whatever its key.
cache_get_last(c, name) == c[Len(c)].value

\* cache_get(key) of the wrapper, for a key the cache holds
cache_get(c, name) == c[CHOOSE i \in 1..Len(c) : c[i].key = name].value

\* A hit moves the entry to the most recently used end.
cache_touch(c, name) ==
    LET IsOther(e) == e.key # name
    IN  Append(SelectSeq(c, IsOther), [key |-> name, value |-> cache_get(c, name)])

\* Storing a result that never makes room for it.
cache_store_without_eviction(c, name, value) ==
    IF CacheHas(c, name) THEN c ELSE Append(c, [key |-> name, value |-> value])

\* Storing a result after the call: nothing if another thread has stored the
\* key meanwhile, else appended, the least recently used entry making room
\* in a full cache.
cache_store(c, name, value) ==
    IF CacheHas(c, name) THEN c
    ELSE IF Len(c) < maxsize THEN Append(c, [key |-> name, value |-> value])
    ELSE Append(Tail(c), [key |-> name, value |-> value])

\* A thread about to call format_sql(parse("SELECT column FROM table")).
NewCaller(column, table, runs) ==
    [column |-> column, table |-> table, pc |-> "lookup", answers |-> <<>>,
     runs |-> runs]

\* The name of the next _quote_ident call of the statement: the column of the
\* target list (visit_ColumnRef), then the table of FROM (visit_RangeVar).
CurrentName(c) == IF Len(c.answers) = 0 THEN c.column ELSE c.table

\* The thread after _needs_quoting(name) has returned value.
Answered(c, value, how) ==
    [c EXCEPT !.answers = Append(@, [name |-> CurrentName(c), value |-> value,
                                     how |-> how]),
              !.pc = IF Len(c.answers) = 1 THEN "done" ELSE "lookup"]

InitQuote ==
    /\ cache = <<>>
    /\ callers \in [1..Threads ->
                       {NewCaller(c, r, 1) : c \in QuoteColumns, r \in QuoteTables}]

\* _needs_quoting(name) enters the wrapper: a hit returns the cached value
\* and marks the entry as used, a miss goes on to call the function.
Lookup(t) ==
    /\ callers[t].pc = "lookup"
    /\ IF CacheHas(cache, CurrentName(callers[t]))
       THEN /\ callers' = [callers EXCEPT ![t] =
                   Answered(@, cache_get(cache, CurrentName(@)), "hit")]
            /\ cache' = cache_touch(cache, CurrentName(callers[t]))
       ELSE /\ callers' = [callers EXCEPT ![t].pc = "call"]
            /\ cache' = cache

\* The function returns and the wrapper stores its result.
CallReturns(t) ==
    /\ callers[t].pc = "call"
    /\ callers' = [callers EXCEPT ![t] =
           Answered(@, needs_quoting(CurrentName(@)), "miss")]
    /\ cache' = cache_store(cache, CurrentName(callers[t]),
                            needs_quoting(CurrentName(callers[t])))

\* scan() raises PgQueryError for an error the library reports: the
\* exception leaves the wrapper and format_sql, nothing is stored.
CallRaises(t) ==
    /\ callers[t].pc = "call"
    /\ SIMPLE_IDENT_RE_match(CurrentName(callers[t]))
    /\ callers' = [callers EXCEPT ![t].pc = "raised"]
    /\ cache' = cache

\* The thread calls format_sql again, with another statement.
CallAgain(t) ==
    /\ callers[t].pc \in {"done", "raised"}
    /\ callers[t].runs < MaxRuns
    /\ \E c \in QuoteColumns, r \in QuoteTables :
           callers' = [callers EXCEPT ![t] = NewCaller(c, r, callers[t].runs + 1)]
    /\ cache' = cache

\* The text format_sql assembles from the answers of _needs_quoting: a single
\* target and a single table stay on the line of their key word.
TextOf(c) ==
    LET Name(k) == IF c.answers[k].value THEN Quoted(c.answers[k].name)
                    ELSE c.answers[k].name
    IN  <<"SELECT", " ", Name(1), "\n", "FROM", " ", Name(2), ";">>

(***************************************************************************)
(* helpers.py: set_or_replace, set_if_not_exists, set_if_exists            *)
(***************************************************************************)

\* The calls made on one tree and the statements of a tree.
MaxCalls == 2
MaxStmts == 2

\* _OR_REPLACE_TYPES, and the kinds of _IF_NOT_EXISTS_TYPES that are modelled
OR_REPLACE_TYPES == {"CreateFunctionStmt", "CreateTrigStmt", "ViewStmt"}
IF_NOT_EXISTS_TYPES == {"CreateStmt", "CreateSchemaStmt"}

\* A statement message: its kind, its flags (a flag the kind does not have is
\* FALSE), and the statements inside a CREATE SCHEMA.
DdlNode(kind, replace, if_not_exists, missing_ok, schema_elts) ==
    [kind |-> kind, replace |-> replace, if_not_exists |-> if_not_exists,
     missing_ok |-> missing_ok, schema_elts |-> schema_elts]

\* The statements without statements inside: the three kinds set_or_replace
\* looks for, RuleStmt (a replace flag, but not looked for), CREATE TABLE,
\* DROP and SELECT.
DdlLeaves ==
    {DdlNode(k, b, FALSE, FALSE, <<>>) : k \in OR_REPLACE_TYPES \cup {"RuleStmt"}, b \in BOOLEAN}
    \cup {DdlNode("CreateStmt", FALSE, b, FALSE, <<>>) : b \in BOOLEAN}
    \cup {DdlNode("DropStmt", FALSE, FALSE, b, <<>>) : b \in BOOLEAN}
    \cup {DdlNode("SelectStmt", FALSE, FALSE, FALSE, <<>>)}

\* CREATE SCHEMA with nothing, a view or a table inside.
DdlSchemas ==
    {DdlNode("CreateSchemaStmt", FALSE, b, FALSE, elts) :
        b \in BOOLEAN,
        elts \in {<<>>} \cup {<<n>> : n \in {m \in DdlLeaves : m.kind \in {"ViewStmt", "CreateStmt"}}}}

\* tree = parse(sql): the statements of the ParseResult.
DdlTrees ==
    UNION {[1..n -> DdlLeaves \cup DdlSchemas] : n \in 1..MaxStmts}

\* The statement messages in the order walk(tree) yields them: each statement
\* and then the statements inside it.
WalkPaths(stmts) ==
    LET RECURSIVE From(_)
        From(i) ==
            IF i > Len(stmts) THEN <<>>
            ELSE <<<<i>>>> \o [j \in 1..Len(stmts[i].schema_elts) |-> <<i, j>>]
                 \o From(i + 1)
    IN  From(1)

\* The message walk yields at a path.
NodeAt(stmts, path) ==
    IF Len(path) = 1 THEN stmts[path[1]]
    ELSE stmts[path[1]].schema_elts[path[2]]

\* node.<field> = True
SetField(stmts, path, field) ==
    IF Len(path) = 1 THEN [stmts EXCEPT ![path[1]][field] = TRUE]
    ELSE [stmts EXCEPT ![path[1]].schema_elts[path[2]][field] = TRUE]

\* The loop that counts every message of the kinds, set or not.
set_flag_counting_all(stmts, types, field) ==
    LET paths == WalkPaths(stmts)
        RECURSIVE Loop(_, _, _)
        Loop(k, tr, count) ==
            IF k > Len(paths) THEN [tree |-> tr, count |-> count]
            ELSE IF NodeAt(tr, paths[k]).kind \in types
                 THEN Loop(k + 1, SetField(tr, paths[k], field), count + 1)
                 ELSE Loop(k + 1, tr, count)
    IN  Loop(1, stmts, 0)

\* for _field_name, node in walk(tree):
\*     if isinstance(node, types) and not node.<field>: set it and count
set_flag(stmts, types, field) ==
    LET paths == WalkPaths(stmts)
        RECURSIVE Loop(_, _, _)
        Loop(k, tr, count) ==
            IF k > Len(paths) THEN [tree |-> tr, count |-> count]
            ELSE IF NodeAt(tr, paths[k]).kind \in types /\ ~NodeAt(tr, paths[k])[field]
                 THEN Loop(k + 1, SetField(tr, paths[k], field), count + 1)
                 ELSE Loop(k + 1, tr, count)
    IN  Loop(1, stmts, 0)

set_or_replace(stmts) == set_flag(stmts, OR_REPLACE_TYPES, "replace")

set_if_not_exists(stmts) == set_flag(stmts, IF_NOT_EXISTS_TYPES, "if_not_exists")

set_if_exists(stmts) == set_flag(stmts, {"DropStmt"}, "missing_ok")

InitDdl ==
    /\ ddl \in DdlTrees
    /\ calls = <<>>

\* The call made, the tree before and after it, and the count returned.
Called(helper, r) ==
    /\ Len(calls) < MaxCalls
    /\ ddl' = r.tree
    /\ calls' = Append(calls, [helper |-> helper, count |-> r.count,
                               before |-> ddl, after |-> r.tree])

\* set_or_replace(tree)
CallSetOrReplace == Called("set_or_replace", set_or_replace(ddl))

\* set_if_not_exists(tree)
CallSetIfNotExists == Called("set_if_not_exists", set_if_not_exists(ddl))

\* set_if_exists(tree)
CallSetIfExists == Called("set_if_exists", set_if_exists(ddl))

(***************************************************************************)
(* Specifications                                                          *)
(***************************************************************************)

\* The tree of the specifications that traverse nothing: a lone root.
IdleTree == CHOOSE t \in TreeShapes(1) : t.emptyAt = 0 /\ ~t.rootWrapped

\* One call of needs_parens on every pair of expression messages.
InitPrecSpec ==
    /\ InitPrec
    /\ tree = IdleTree
    /\ IdleWalk
    /\ IdleVisit
    /\ IdleFmt
    /\ IdleEmit
    /\ IdleQuote
    /\ IdleDdl

NextPrec == CallNeedsParens /\ UNCHANGED <<tree, walkVars, visitVars, fmtVars,
                                           emitVars, quoteVars, ddlVars>>

SpecPrec == InitPrecSpec /\ [][NextPrec]_vars

\* walk() over every tree of at most MaxNodes messages.
InitWalk ==
    /\ tree \in Trees(MaxNodes)
    /\ wpc = "start"
    /\ stack = <<>>
    /\ yielded = <<>>
    /\ IdlePrec
    /\ IdleVisit
    /\ IdleFmt
    /\ IdleEmit
    /\ IdleQuote
    /\ IdleDdl

NextWalk == WalkStart \/ WalkStep \/ WalkReturn

SpecWalk == InitWalk /\ [][NextWalk]_vars

\* walk() over every tree of at most MaxLiveNodes messages, for termination.
InitWalkLive ==
    /\ tree \in Trees(MaxLiveNodes)
    /\ wpc = "start"
    /\ stack = <<>>
    /\ yielded = <<>>
    /\ IdlePrec
    /\ IdleVisit
    /\ IdleFmt
    /\ IdleEmit
    /\ IdleQuote
    /\ IdleDdl

\* The consumer keeps iterating the generator.
FairSpecWalk == InitWalkLive /\ [][NextWalk]_vars /\ WF_vars(NextWalk)

\* A visitor run over every tree of at most MaxVisitNodes messages.
InitVisit ==
    /\ tree \in Trees(MaxVisitNodes)
    /\ visitor \in Visitors
    /\ vpc = "start"
    /\ frames = <<>>
    /\ visitLog = <<>>
    /\ handlerLog = <<>>
    /\ IdlePrec
    /\ IdleWalk
    /\ IdleFmt
    /\ IdleEmit
    /\ IdleQuote
    /\ IdleDdl

NextVisit == VisitRoot \/ VisitChild \/ VisitReturn \/ VisitDone

SpecVisit == InitVisit /\ [][NextVisit]_vars

\* walk() and a visitor run, each over every tree of its bound.
InitTraverse == InitWalk \/ InitVisit

NextTraverse == NextWalk \/ NextVisit

SpecTraverse == InitTraverse /\ [][NextTraverse]_vars

\* format_sql in several threads, their calls of _needs_quoting interleaved.
InitQuoteSpec ==
    /\ InitQuote
    /\ tree = IdleTree
    /\ IdlePrec
    /\ IdleWalk
    /\ IdleVisit
    /\ IdleFmt
    /\ IdleEmit
    /\ IdleDdl

NextQuote ==
    \E t \in 1..Threads :
        \/ Lookup(t) /\ UNCHANGED <<tree, precVars, walkVars, visitVars, fmtVars, emitVars, ddlVars>>
        \/ CallReturns(t) /\ UNCHANGED <<tree, precVars, walkVars, visitVars, fmtVars, emitVars, ddlVars>>
        \/ CallRaises(t) /\ UNCHANGED <<tree, precVars, walkVars, visitVars, fmtVars, emitVars, ddlVars>>
        \/ CallAgain(t) /\ UNCHANGED <<tree, precVars, walkVars, visitVars, fmtVars, emitVars, ddlVars>>

SpecQuote == InitQuoteSpec /\ [][NextQuote]_vars

\* The three helpers called on one parse tree, in every order.
InitDdlSpec ==
    /\ InitDdl
    /\ tree = IdleTree
    /\ IdlePrec
    /\ IdleWalk
    /\ IdleVisit
    /\ IdleFmt
    /\ IdleEmit
    /\ IdleQuote

NextDdl ==
    \/ CallSetOrReplace /\ UNCHANGED <<tree, precVars, walkVars, visitVars, fmtVars, emitVars, quoteVars>>
    \/ CallSetIfNotExists /\ UNCHANGED <<tree, precVars, walkVars, visitVars, fmtVars, emitVars, quoteVars>>
    \/ CallSetIfExists /\ UNCHANGED <<tree, precVars, walkVars, visitVars, fmtVars, emitVars, quoteVars>>

SpecDdl == InitDdlSpec /\ [][NextDdl]_vars

\* The emit helpers in every order on one formatter.
InitEmitSpec ==
    /\ InitEmit
    /\ tree = IdleTree
    /\ IdlePrec
    /\ IdleWalk
    /\ IdleVisit
    /\ IdleFmt
    /\ IdleQuote
    /\ IdleDdl

SpecEmit == InitEmitSpec /\ [][NextEmit]_vars

\* format_sql on every input text, then the two checks of tests/test_format.py.
InitFmtSpec ==
    /\ InitFmt
    /\ tree = IdleTree
    /\ IdlePrec
    /\ IdleWalk
    /\ IdleVisit
    /\ IdleEmit
    /\ IdleQuote
    /\ IdleDdl

NextFmt ==
    \/ FormatSql /\ UNCHANGED <<tree, precVars, walkVars, visitVars, emitVars, quoteVars, ddlVars>>
    \/ RoundTrip /\ UNCHANGED <<tree, precVars, walkVars, visitVars, emitVars, quoteVars, ddlVars>>
    \/ FormatAgain /\ UNCHANGED <<tree, precVars, walkVars, visitVars, emitVars, quoteVars, ddlVars>>

SpecFmt == InitFmtSpec /\ [][NextFmt]_vars

\* format_sql on every parse tree of FormatTrees.
InitFormatTreeSpec ==
    /\ InitFormatTree
    /\ tree = IdleTree
    /\ IdlePrec
    /\ IdleWalk
    /\ IdleVisit
    /\ IdleEmit
    /\ IdleQuote
    /\ IdleDdl

NextFormatTree ==
    FormatParseResult /\ UNCHANGED <<tree, precVars, walkVars, visitVars, emitVars, quoteVars, ddlVars>>

SpecFormatTree == InitFormatTreeSpec /\ [][NextFormatTree]_vars

(***************************************************************************)
(* Properties of format_sql                                                *)
(***************************************************************************)

\* C1: round trip: once format_sql(sql) has been parsed and deparsed again,
\* the result is the canonical deparse of the parse tree of sql.
C1_RoundTrip ==
    canon_once # Unset => (canon_once.status = "ok" /\ canon_once = canon_sql)

\* C2: idempotence: formatting the output of format_sql returns that output.
C2_Idempotent ==
    twice # Unset => twice = once

\* The positions of the token tok in a text.
Positions(text, tok) == {i \in 1..Len(text) : text[i] = tok}

WhiteSpace == {" ", "\n"}

\* C12: for a tree of N >= 1 statements the output holds N times ";", the
\* last one at its end; no ";" follows white space; every ";" but the last
\* is followed by one blank line and then the next statement; the text up to
\* the i-th ";" is the i-th statement formatted on its own.  For a tree
\* without statements the output is empty.
C12_StatementLayout ==
    (once # Unset /\ once.status = "ok") =>
        LET stmts == parse(sql).tree.stmts
            out == once.text
            semis == Positions(out, ";")
            \* the position of the i-th ";" and of the token after the (i-1)-th
            End(i) == CHOOSE k \in semis : Cardinality({j \in semis : j < k}) = i - 1
            Begin(i) == IF i = 1 THEN 1 ELSE End(i - 1) + 3
            Alone(i) == format_sql_tree([type |-> "ParseResult", stmts |-> <<stmts[i]>>])
        IN  IF stmts = <<>> THEN out = <<>>
            ELSE /\ Cardinality(semis) = Len(stmts)
                 /\ out[Len(out)] = ";"
                 /\ \A k \in semis :
                        /\ k > 1 /\ out[k - 1] \notin WhiteSpace
                        /\ k < Len(out) =>
                               /\ out[k + 1] = "\n" /\ out[k + 2] = "\n"
                               /\ out[k + 3] \notin WhiteSpace
                 /\ \A i \in 1..Len(stmts) :
                        Alone(i).text = SubSeq(out, Begin(i), End(i))

\* Two statements in one text, formatted.
C12_Witness ==
    /\ once # Unset
    /\ once.status = "ok"
    /\ Len(parse(sql).tree.stmts) = 2
    /\ Cardinality(Positions(once.text, ";")) = 2

\* The position where the line of the i-th token of a text begins, and the
\* number of spaces a line beginning at j is indented by.
LineStart(text, i) ==
    CHOOSE j \in 1..i : /\ j = 1 \/ text[j - 1] = "\n"
                        /\ \A k \in j..(i - 1) : text[k] # "\n"

IndentAt(text, j) ==
    CHOOSE n \in 0..Len(text) :
        /\ \A k \in j..(j + n - 1) : k <= Len(text) /\ text[k] = " "
        /\ j + n > Len(text) \/ text[j + n] # " "

\* The last word of each clause key word of a SELECT statement.
ClauseKeywordEnds == {"SELECT", "DISTINCT", "FROM", "WHERE", "BY", "HAVING", "LIMIT"}

\* C13: every clause key word of the output stands alone on its line (SELECT
\* may carry DISTINCT) and the line after it is indented one level deeper,
\* also when the clause has a single item: format_sql("SELECT a") returns
\* "SELECT\n  a;".
C13_KeywordAlone ==
    (once # Unset /\ once.status = "ok") =>
        LET out == once.text IN
        \A i \in 1..Len(out) :
            (/\ out[i] \in ClauseKeywordEnds
             /\ ~(out[i] = "SELECT" /\ i + 2 <= Len(out) /\ out[i + 2] = "DISTINCT")) =>
                /\ i + 2 <= Len(out)
                /\ out[i + 1] = "\n"
                /\ IndentAt(out, i + 2) = IndentAt(out, LineStart(out, i)) + 2

\* The position of the last token of the line that begins at j.
LineEnd(text, j) ==
    CHOOSE k \in (j - 1)..Len(text) :
        /\ \A i \in j..k : text[i] # "\n"
        /\ k = Len(text) \/ text[k + 1] = "\n"

\* The statement of a ParseResult of one statement.
OnlyStmt(parse_result) == UnwrapPb(parse_result.stmts[1].stmt)

\* The list-valued clauses of the outermost SELECT of an output: the
\* position of the last word of the key word, and the items of the list.
ListClauses(out, stmt) ==
    LET AtLineStart(word) == {i \in Positions(out, word) : i = 1 \/ out[i - 1] = "\n"}
        Clause(word, skip, items) ==
            {[at |-> i + skip, items |-> items] : i \in AtLineStart(word)}
    IN  Clause("SELECT", IF stmt.distinct_clause = <<>> THEN 0 ELSE 2, stmt.target_list)
        \cup Clause("GROUP", 2, stmt.group_clause)
        \cup Clause("ORDER", 2, stmt.sort_clause)

\* C14: a list of one item is emitted on the line of the clause key word; a
\* list of two or more items one item per line below the key word, every
\* line indented one level and every item but the last followed by a comma.
C14_ListLayout ==
    (fpc = "formatted" /\ once.status = "ok") =>
        LET out == once.text
            \* the m item lines from position j on, the last without a comma
            RECURSIVE ItemLines(_, _)
            ItemLines(j, m) ==
                /\ j + 2 <= Len(out)
                /\ IndentAt(out, j) = 2
                /\ (out[LineEnd(out, j)] = ",") = (m > 1)
                /\ m > 1 => ItemLines(LineEnd(out, j) + 2, m - 1)
                /\ m = 1 => \/ LineEnd(out, j) + 1 >= Len(out)
                            \/ IndentAt(out, LineEnd(out, j) + 2) = 0
        IN  \A c \in ListClauses(out, OnlyStmt(sql)) :
                /\ Len(c.items) = 1 =>
                       /\ c.at + 2 <= Len(out)
                       /\ out[c.at + 1] = " "
                       /\ out[c.at + 2] \notin WhiteSpace
                /\ Len(c.items) >= 2 =>
                       /\ out[c.at + 1] = "\n"
                       /\ ItemLines(c.at + 2, Len(c.items))


\* The filter clauses of the outermost SELECT of an output whose condition is
\* an AND/OR combinator: the position of the key word, and the condition.
FilterClauses(out, stmt) ==
    LET AtLineStart(word) == {i \in Positions(out, word) : i = 1 \/ out[i - 1] = "\n"}
        Clause(word, field) ==
            {[at |-> i, cond |-> UnwrapPb(field[1])] :
                i \in {j \in AtLineStart(word) :
                          /\ field # <<>>
                          /\ UnwrapPb(field[1]).type = "BoolExpr"
                          /\ UnwrapPb(field[1]).boolop \in {"AND_EXPR", "OR_EXPR"}}}
    IN  Clause("WHERE", stmt.where_clause) \cup Clause("HAVING", stmt.having_clause)

\* C15: an AND/OR condition of WHERE or HAVING with k operands takes the k
\* lines below the key word, each indented one level, every line after the
\* first starting with the combinator key word, an operand that needs
\* parentheses wrapped on its line; an AND/OR combinator in the target list
\* is joined on one line.
C15_FilterLayout ==
    (fpc = "formatted" /\ once.status = "ok") =>
        LET out == once.text
            stmt == OnlyStmt(sql)
            RECURSIVE OperandLines(_, _, _)
            OperandLines(j, cond, i) ==
                LET end == LineEnd(out, j)
                    body == IF i = 1 THEN j + 2 ELSE j + 4
                IN  /\ IndentAt(out, j) = 2
                    /\ i > 1 => /\ out[j + 2] = (IF cond.boolop = "AND_EXPR" THEN "AND" ELSE "OR")
                                /\ out[j + 3] = " "
                    /\ needs_parens(cond, cond.args[i], "none")
                           => out[body] = "(" /\ ")" \in {out[end], out[end - 1]}
                    /\ i < Len(cond.args) => OperandLines(end + 2, cond, i + 1)
                    /\ i = Len(cond.args) => \/ end = Len(out)
                                             \/ IndentAt(out, end + 2) = 0
            val == UnwrapPb(UnwrapPb(stmt.target_list[1]).val)
        IN  /\ \A c \in FilterClauses(out, stmt) :
                   /\ out[c.at + 1] = "\n"
                   /\ OperandLines(c.at + 2, c.cond, 1)
            /\ (Len(stmt.target_list) = 1 /\ val.type = "BoolExpr"
                    /\ val.boolop \in {"AND_EXPR", "OR_EXPR"}) =>
                   \E i \in Positions(out, "SELECT") :
                       Cardinality({k \in i..LineEnd(out, i) :
                                       /\ out[k] \in {"AND", "OR"}
                                       /\ out[k - 1] = " " /\ out[k + 1] = " "})
                           = Len(val.args) - 1

\* C16: format_sql returns a text for every tree the parser produces; it
\* never raises, also when the single-node deparse is called from inside a
\* specific handler.
C16_NeverRaises == fpc = "formatted" => once.status = "ok"

\* The kinds of the values of the target list of a statement.
TargetKinds(stmt) ==
    {UnwrapPb(UnwrapPb(stmt.target_list[i]).val).type : i \in 1..Len(stmt.target_list)}

\* C17: when the target list holds a node without a specific handler that the
\* single-node deparse refuses, format_sql fails and returns no output.
C17_FallbackErrorPropagates ==
    (fpc = "formatted" /\ TargetKinds(OnlyStmt(sql)) \cap {"CollateClause", "SQLValueFunction"} # {})
        => once.status = "error"

\* C18: the output alias after AS, the column and the table of a statement
\* are emitted in double quotes exactly when the name is not a simple
\* identifier or is a reserved key word, and bare otherwise.
C18_IdentifierQuoting ==
    (fpc = "formatted" /\ once.status = "ok") =>
        LET out == once.text
            stmt == OnlyStmt(sql)
            rt == UnwrapPb(stmt.target_list[1])
            val == UnwrapPb(rt.val)
            rv == UnwrapPb(stmt.from_clause[1])
        IN  /\ (Len(stmt.target_list) = 1 /\ rt.name # "") =>
                   \E i \in Positions(out, "AS") :
                       out[i + 1] = " " /\ out[i + 2] = quote_ident(rt.name)
            /\ (Len(stmt.target_list) = 1 /\ val.type = "ColumnRef") =>
                   \E i \in Positions(out, quote_ident(UnwrapPb(val.fields[1]).sval)) :
                       i > 2 /\ out[i - 1] = " " /\ out[i - 2] \in {"SELECT", "DISTINCT"}
            /\ (Len(stmt.from_clause) = 1 /\ rv.type = "RangeVar") =>
                   \E i \in Positions(out, "FROM") :
                       (i = 1 \/ out[i - 1] = "\n") /\ out[i + 2] = quote_ident(rv.relname)

\* The first words of the clauses of a SELECT statement, in the order of
\* visit_SelectStmt, each with the field that populates it.
ClauseOrder(stmt) ==
    <<[word |-> "WITH", field |-> stmt.with_clause],
      [word |-> "SELECT", field |-> <<stmt>>],
      [word |-> "FROM", field |-> stmt.from_clause],
      [word |-> "WHERE", field |-> stmt.where_clause],
      [word |-> "GROUP", field |-> stmt.group_clause],
      [word |-> "HAVING", field |-> stmt.having_clause],
      [word |-> "ORDER", field |-> stmt.sort_clause],
      [word |-> "LIMIT", field |-> stmt.limit_count],
      [word |-> "OFFSET", field |-> stmt.limit_offset],
      [word |-> "FOR", field |-> stmt.locking_clause]>>

\* C19: the clause key words at the start of the unindented lines of the
\* output are those of the populated fields, each once, in the order WITH,
\* SELECT, FROM, WHERE, GROUP BY, HAVING, ORDER BY, LIMIT, OFFSET, locking;
\* DISTINCT follows SELECT on its line exactly when distinct_clause is
\* populated.
C19_ClauseOrder ==
    (fpc = "formatted" /\ once.status = "ok") =>
        LET out == once.text
            stmt == OnlyStmt(sql)
            order == ClauseOrder(stmt)
            Starts(word) == {i \in Positions(out, word) : i = 1 \/ out[i - 1] = "\n"}
            First(k) == CHOOSE i \in Starts(order[k].word) : TRUE
            populated == {k \in 1..Len(order) : order[k].field # <<>>}
        IN  /\ \A k \in 1..Len(order) :
                   Cardinality(Starts(order[k].word)) = (IF k \in populated THEN 1 ELSE 0)
            /\ \A k, l \in populated : k < l => First(k) < First(l)
            /\ (stmt.distinct_clause # <<>>) =
                   (out[First(2) + 1] = " " /\ out[First(2) + 2] = "DISTINCT")

C19_Witness ==
    /\ fpc = "formatted" /\ once.status = "ok"
    /\ \A k \in 1..Len(ClauseOrder(OnlyStmt(sql))) : ClauseOrder(OnlyStmt(sql))[k].field # <<>>
    /\ OnlyStmt(sql).distinct_clause # <<>>

C22_StatementsIndependent ==
    (once # Unset /\ once.status = "ok" /\ parse(sql).status = "ok") =>
        LET stmts == parse(sql).tree.stmts
            Alone(k) == get_output(visit(NewFormatter, UnwrapPb(stmts[k].stmt)))
        IN  Len(stmts) >= 2 =>
                once.text = JoinText([k \in 1..Len(stmts) |-> Alone(k)], <<";", "\n", "\n">>)
                                \o <<";">>

C22_Witness ==
    /\ once # Unset /\ once.status = "ok" /\ parse(sql).status = "ok"
    /\ Len(parse(sql).tree.stmts) >= 2
    /\ Cardinality(Positions(once.text, ";")) = Len(parse(sql).tree.stmts)

\* C30: every populated sort_clause, limit_count and limit_offset of a
\* SelectStmt shows in the text of its statement, also when the statement is
\* a set operation.
C30_NoClauseDropped ==
    (once # Unset /\ once.status = "ok" /\ parse(sql).status = "ok") =>
        LET stmts == parse(sql).tree.stmts
            Words(k) == Range(get_output(visit(NewFormatter, UnwrapPb(stmts[k].stmt))))
        IN  \A k \in 1..Len(stmts) :
                LET stmt == UnwrapPb(stmts[k].stmt)
                IN  stmt.type = "SelectStmt" =>
                        /\ stmt.sort_clause # <<>> => "ORDER" \in Words(k)
                        /\ stmt.limit_count # <<>> => "LIMIT" \in Words(k)
                        /\ stmt.limit_offset # <<>> => "OFFSET" \in Words(k)

\* The formatters _fmt is called on: some text emitted or none, at depth 0 to
\* 2, at line start or not, inside a filter clause or not.
Enclosing ==
    {[NewFormatter EXCEPT !.parts = p, !.depth = dd, !.at_line_start = a,
                          !.in_clause_context = c] :
        p \in {<<>>, <<"SELECT">>, <<"(", "\n">>}, dd \in 0..2, a \in BOOLEAN, c \in BOOLEAN}

\* C23: _fmt(target) that returns leaves buffer, depth and at-line-start flag
\* of the enclosing formatter as it found them, and returns the text the
\* target gives on an empty buffer at depth 0 and line start; so it does for
\* a target with a subquery, whose SELECT calls _fmt from inside _fmt.
C23_FmtIsolated ==
    (fpc = "formatted" /\ OnlyStmt(sql).target_list # <<>>) =>
        LET target == UnwrapPb(OnlyStmt(sql).target_list[1])
            Isolated(e0, f) ==
                ~f.e.raised =>
                    /\ f.e.parts = e0.parts
                    /\ f.e.depth = e0.depth
                    /\ f.e.at_line_start = e0.at_line_start
                    /\ f.result =
                           visit([NewFormatter EXCEPT
                                     !.in_clause_context = e0.in_clause_context],
                                 target).parts
        IN  \A e0 \in Enclosing : Isolated(e0, fmt(e0, target))

C23_Witness ==
    /\ fpc = "formatted" /\ once.status = "ok"
    /\ UnwrapPb(UnwrapPb(OnlyStmt(sql).target_list[1]).val).type = "SubLink"
    /\ "\n" \in Range(fmt(NewFormatter, UnwrapPb(OnlyStmt(sql).target_list[1])).result)

\* C29: only the condition of WHERE or HAVING of the statement and its
\* unparenthesised combinator operands are broken over lines, so every line
\* of the output that starts with AND or OR is indented one level; and the
\* formatter's filter-context flag is off again when the statement is done.
C29_DeeperCombinatorInline ==
    (fpc = "formatted" /\ once.status = "ok") =>
        LET out == once.text
            starts == {j \in 1..Len(out) : j = 1 \/ out[j - 1] = "\n"}
        IN  /\ \A j \in starts :
                   (j + IndentAt(out, j) <= Len(out)
                        /\ out[j + IndentAt(out, j)] \in {"AND", "OR"})
                       => IndentAt(out, j) = 2
            /\ ~visit(NewFormatter, OnlyStmt(sql)).in_clause_context

\* C28: when the handler of the statement returns the depth is 0, and it has
\* not been below 0 on the way.
C28_IndentBalanced ==
    fpc = "formatted" =>
        LET Balanced(e) == ~e.raised => (e.depth = 0 /\ e.min_depth >= 0)
        IN  Balanced(visit(NewFormatter, OnlyStmt(sql)))

C28_Witness ==
    /\ fpc = "formatted" /\ once.status = "ok"
    /\ OnlyStmt(sql).with_clause # <<>> /\ OnlyStmt(sql).where_clause # <<>>
    /\ \E j \in 1..Len(once.text) :
           (j = 1 \/ once.text[j - 1] = "\n") /\ IndentAt(once.text, j) = 4

(***************************************************************************)
(* Properties of the emit helpers                                          *)
(***************************************************************************)

\* The places of text where a line begins.
LineStarts(text) == {j \in 1..Len(text) : j = 1 \/ text[j - 1] = "\n"}

\* The lines of q that carry text and are begun past the end of p.
BegunLines(p, q) == {j \in LineStarts(q) : j > Len(p) /\ q[j] # "\n"}

\* No line of text is made of spaces only.
NoBlankIndent(text) ==
    \A j \in LineStarts(text) :
        IndentAt(text, j) > 0 =>
            /\ j + IndentAt(text, j) <= Len(text)
            /\ text[j + IndentAt(text, j)] # "\n"

\* The at-line-start flag is up only where a line begins.
FlagAtLineStart(e) ==
    e.at_line_start => (e.parts = <<>> \/ e.parts[Len(e.parts)] = "\n")

TextsAsAlone ==
    \A t \in 1..Threads :
        callers[t].pc = "done" =>
            /\ format_sql_tree(IdentifierTree(callers[t].column, callers[t].table)).status = "ok"
            /\ TextOf(callers[t]) =
                   format_sql_tree(IdentifierTree(callers[t].column, callers[t].table)).text

\* The statement of the claim: the calls share no state that changes, and
\* each returns the text it returns alone.
C21_NoSharedMutableState == [][cache' = cache /\ TextsAsAlone']_vars

\* C21: concurrent format_sql calls share the cache of _needs_quoting, which
\* their calls fill, reorder and evict from; under every interleaving each
\* call that returns gives the text it gives when run alone.
C21_SharedCacheSameText == TextsAsAlone

\* Both threads have returned, one of them with an answer that the other
\* thread's call had put into the cache.
C21_Witness ==
    /\ \A t \in 1..Threads : callers[t].pc = "done" /\ callers[t].runs = 1
    /\ \E t \in 1..Threads :
           /\ callers[t].answers[1].how = "miss"
           /\ callers[t].answers[2].how = "hit"
           /\ callers[t].column # callers[t].table

\* What the cache and the answers hold is what the function computes.
CacheAgrees ==
    /\ Len(cache) <= maxsize
    /\ \A i, j \in 1..Len(cache) : cache[i].key = cache[j].key => i = j
    /\ \A i \in 1..Len(cache) : cache[i].value = needs_quoting(cache[i].key)
    /\ \A t \in 1..Threads : \A k \in 1..Len(callers[t].answers) :
           callers[t].answers[k].value = needs_quoting(callers[t].answers[k].name)

\* C25: every _needs_quoting call that returns, from the cache or from the
\* function, before or after evictions, returns what the function computes
\* for the name; the cache never holds more than maxsize names nor a wrong
\* value; a call that ends in an exception of scan() leaves the cache as it
\* was.
C25_CacheTransparent ==
    [][/\ CacheAgrees'
       /\ \A t \in 1..Threads :
              (callers[t].pc = "call" /\ callers'[t].pc = "raised") => cache' = cache]_vars

\* The cache is full and has dropped a name it had answered for, a call was
\* answered from the cache and another one ended in an exception.
C25_Witness ==
    /\ Len(cache) = maxsize
    /\ \E t \in 1..Threads : \E k \in 1..Len(callers[t].answers) :
           ~CacheHas(cache, callers[t].answers[k].name)
    /\ \E t \in 1..Threads : \E k \in 1..Len(callers[t].answers) :
           callers[t].answers[k].how = "hit"
    /\ \E t \in 1..Threads :
           callers[t].pc = "raised" /\ ~CacheHas(cache, CurrentName(callers[t]))

(***************************************************************************)
(* Properties of set_or_replace, set_if_not_exists and set_if_exists       *)
(***************************************************************************)

\* The kinds a helper looks for and the flag it sets.
HelperTypes(helper) ==
    CASE helper = "set_or_replace" -> OR_REPLACE_TYPES
      [] helper = "set_if_not_exists" -> IF_NOT_EXISTS_TYPES
      [] helper = "set_if_exists" -> {"DropStmt"}

HelperFlag(helper) ==
    CASE helper = "set_or_replace" -> "replace"
      [] helper = "set_if_not_exists" -> "if_not_exists"
      [] helper = "set_if_exists" -> "missing_ok"

\* The places of all statement messages of a tree.
AllPaths(stmts) ==
    {<<i>> : i \in 1..Len(stmts)}
    \cup UNION {{<<i, j>> : j \in 1..Len(stmts[i].schema_elts)} : i \in 1..Len(stmts)}

\* The messages of a call's kinds whose flag was false before the call.
Unset_before(c) ==
    {p \in AllPaths(c.before) :
        /\ NodeAt(c.before, p).kind \in HelperTypes(c.helper)
        /\ ~NodeAt(c.before, p)[HelperFlag(c.helper)]}

\* A message without the statements inside it.
Own(n) == [n EXCEPT !.schema_elts = <<>>]

\* C26: each of the three helpers returns the number of messages of its
\* kinds whose flag was false before the call, sets the flag of exactly those
\* messages and changes nothing else; the same helper called again at once
\* returns 0 and leaves the tree as it is.
C26_SetFlagCountsAndSets ==
    /\ \A k \in 1..Len(calls) :
           /\ calls[k].count = Cardinality(Unset_before(calls[k]))
           /\ AllPaths(calls[k].after) = AllPaths(calls[k].before)
           /\ \A p \in AllPaths(calls[k].before) :
                  Own(NodeAt(calls[k].after, p)) =
                      IF p \in Unset_before(calls[k])
                      THEN [Own(NodeAt(calls[k].before, p)) EXCEPT
                               ![HelperFlag(calls[k].helper)] = TRUE]
                      ELSE Own(NodeAt(calls[k].before, p))
    /\ \A k \in 1..(Len(calls) - 1) :
           calls[k + 1].helper = calls[k].helper =>
               /\ calls[k + 1].count = 0
               /\ calls[k + 1].after = calls[k].after

\* set_or_replace was called twice on a tree with a view inside a CREATE
\* SCHEMA: the first call returned 2, one of them for the view inside, and
\* the CREATE SCHEMA kept its own flag unset.
C26_Witness ==
    /\ Len(calls) = 2
    /\ calls[1].helper = "set_or_replace" /\ calls[2].helper = "set_or_replace"
    /\ calls[1].count = 2
    /\ \E p \in Unset_before(calls[1]) : Len(p) = 2
    /\ \E p \in AllPaths(ddl) :
           NodeAt(ddl, p).kind = "CreateSchemaStmt" /\ ~NodeAt(ddl, p).if_not_exists
(***************************************************************************)
(* Properties of walk() and the visitors                                   *)
(***************************************************************************)

\* The child slots of a message read off the tree: for each message-typed
\* field in schema order the messages stored in it in sequence order, a Node
\* wrapper standing for its content, or for itself when nothing is set.
ChildSlots(t, m) ==
    IF m.k # "msg" THEN <<>>
    ELSE Flatten([f \in 1..Len(MsgFields) |->
            LET cs == ChildrenVia(t, m.id, MsgFields[f])
            IN  [j \in 1..Len(cs) |-> [field |-> MsgFields[f], msg |-> Msg(cs[j])]]
                \o (IF MsgFields[f] = "args" /\ t.emptyAt = m.id
                    THEN <<[field |-> "args", msg |-> EmptyWrapper]>> ELSE <<>>)])

\* Depth-first pre-order of the subtree of m, reached through field f.
RECURSIVE PreOrder(_, _, _)
PreOrder(t, f, m) ==
    LET slots == ChildSlots(t, m)
    IN  <<[field |-> f, msg |-> m]>>
        \o Flatten([j \in 1..Len(slots) |-> PreOrder(t, slots[j].field, slots[j].msg)])

IsPrefix(s, full) == Len(s) <= Len(full) /\ s = SubSeq(full, 1, Len(s))

\* C3: walk yields (field_name, node) pairs in depth-first pre-order: the
\* root first with an empty field name, then each node's children in schema
\* field order and sequence order, a child's whole subtree before its next
\* sibling, each child with the name of the field that led to it.
C3_WalkPreOrder ==
    wpc \in {"loop", "done"} =>
        /\ yielded[1] = [field |-> "", msg |-> Msg(1)]
        /\ IsPrefix(yielded, PreOrder(tree, "", Msg(1)))
        /\ wpc = "done" => yielded = PreOrder(tree, "", Msg(1))

\* A finished walk of root 1 with children 3 (field "arg") and 2 (field
\* "args"), 2 having the child 4: field order and subtree order both matter.
C3_Witness ==
    /\ wpc = "done"
    /\ Len(yielded) = 4
    /\ [i \in 1..4 |-> yielded[i].msg.id] = <<1, 3, 2, 4>>
    /\ yielded[2].field = "arg" /\ yielded[3].field = "args"

\* C4: no consumer observes the Node wrapper kind: walk never yields a
\* message of type Node and visit never dispatches to visit_Node, also for
\* trees that contain a wrapper slot with nothing set.
C4_NoNodeObserved ==
    /\ \A i \in 1..Len(yielded) : TypeName(yielded[i].msg) # "Node"
    /\ \A i \in 1..Len(handlerLog) : handlerLog[i].handler # VisitHandler("Node")

\* The messages reachable from the root: every concrete message and the
\* wrapper slot with nothing set, when the tree has one.
Reachable(t) ==
    {Msg(i) : i \in 1..t.n} \cup (IF t.emptyAt # 0 THEN {EmptyWrapper} ELSE {})

WalkYieldsOnce ==
    /\ \A i, j \in 1..Len(yielded) : yielded[i].msg = yielded[j].msg => i = j
    /\ \A i \in 1..Len(yielded) : yielded[i].msg.k # "scalar"
    /\ wpc = "done" => {yielded[i].msg : i \in 1..Len(yielded)} = Reachable(tree)

\* C5: for every finite tree walk terminates and yields every message
\* reachable from the root exactly once; scalar fields are never yielded.
C5_WalkTerminatesOnce == <>(wpc = "done") /\ []WalkYieldsOnce

\* A finished walk over a tree of at least three messages, all with scalars.
C5_Witness ==
    /\ wpc = "done"
    /\ tree.n >= 3
    /\ Len(yielded) >= tree.n

\* The kind tag a visitor dispatches on for the argument of visit().
KindTag(v, arg) ==
    IF arg.id # 0 THEN KindOf(arg.id) ELSE IF v.typed THEN "AstNode" ELSE "Node"

\* C6: visit(node) invokes exactly one handler per call: visit_<Kind> for
\* the node's kind tag when the visitor defines it, otherwise generic_visit;
\* the same for TypedVisitor with typed wrappers.
C6_OneHandlerPerVisit ==
    /\ Len(handlerLog) = Len(visitLog)
    /\ \A i \in 1..Len(visitLog) :
          LET arg == visitLog[i].arg
              tag == KindTag(visitor, arg)
          IN  /\ handlerLog[i].node = (IF arg.id # 0 THEN Msg(arg.id) ELSE arg)
              /\ handlerLog[i].handler =
                    (IF tag \in visitor.defined THEN VisitHandler(tag) ELSE GenericVisit)

\* A finished run of a typed visitor that reached one of its own handlers
\* and fell back to generic_visit for another node.
C6_Witness ==
    /\ vpc = "done"
    /\ visitor.typed
    /\ \E i \in 1..Len(handlerLog) : handlerLog[i].handler.h = "visit"
    /\ \E i \in 1..Len(handlerLog) : handlerLog[i].handler = GenericVisit

RECURSIVE IsAncestor(_, _, _)
\* Is message a a proper ancestor of message j?
IsAncestor(t, a, j) ==
    IF j <= 1 THEN FALSE
    ELSE t.up[j] = a \/ IsAncestor(t, a, t.up[j])

\* The messages strictly below m.
Descendants(t, m) ==
    IF m.k # "msg" THEN {}
    ELSE {Msg(j) : j \in {x \in 1..t.n : IsAncestor(t, m.id, x)}}
         \cup (IF t.emptyAt # 0 /\ (t.emptyAt = m.id \/ IsAncestor(t, m.id, t.emptyAt))
               THEN {EmptyWrapper} ELSE {})

\* The arguments of the visit() calls made on behalf of node m, in call order.
VisitsBy(m) ==
    LET Made(e) == e.by = m
        es == SelectSeq(visitLog, Made)
    IN  [i \in 1..Len(es) |-> es[i].arg]

\* C7: opt-in recursion: generic_visit visits each direct child of the node
\* once, in child order, and nothing deeper by itself; when a visit_<Kind>
\* handler returns without calling generic_visit no descendant of the node
\* is visited, and when it calls generic_visit the children are visited.
C7_OptInRecursion ==
    /\ \A i \in 2..Len(visitLog) :
          visitLog[i].arg \in {c.msg : c \in Range(ChildSlots(tree, visitLog[i].by))}
    /\ vpc = "done" =>
          \A i \in 1..Len(handlerLog) :
              LET m == handlerLog[i].node
                  slots == ChildSlots(tree, m)
              IN  IF Recurses(visitor, handlerLog[i].handler)
                  THEN VisitsBy(m) = [j \in 1..Len(slots) |-> slots[j].msg]
                  ELSE \A j \in 1..Len(visitLog) : visitLog[j].arg \notin Descendants(tree, m)

\* A finished run in which a handler that does not call generic_visit cut
\* off a node with children, below a root handled by generic_visit.
C7_Witness ==
    /\ vpc = "done"
    /\ tree.n = 3
    /\ handlerLog[1].handler = GenericVisit
    /\ \E i \in 2..Len(handlerLog) :
          /\ handlerLog[i].handler.h = "visit"
          /\ ~Recurses(visitor, handlerLog[i].handler)
          /\ ChildSlots(tree, handlerLog[i].node) # <<>>

(***************************************************************************)
(* Properties of needs_parens                                              *)
(***************************************************************************)

InfixSyms == {"+", "-", "*"}

IsInfix(node) ==
    LET inner == UnwrapPb(node) IN
    /\ inner.type = "A_Expr"
    /\ inner.kind = "AEXPR_OP"
    /\ inner.lexpr # <<>>
    /\ inner.name # <<>>
    /\ UnwrapPb(inner.name[1]).sval \in InfixSyms

\* An expression of binary operators and columns written without parentheses.
RECURSIVE BareText(_)
BareText(node) ==
    LET inner == UnwrapPb(node) IN
    IF inner.type = "A_Expr"
    THEN BareText(inner.lexpr[1]) \o <<" ", UnwrapPb(inner.name[1]).sval, " ">>
         \o BareText(inner.rexpr[1])
    ELSE <<UnwrapPb(inner.fields[1]).sval>>

\* The parent with the child as its operand on side s.
WithChild(p_node, c_node, s) ==
    IF s = "left"
    THEN [UnwrapPb(p_node) EXCEPT !.lexpr = <<PbNode(UnwrapPb(c_node))>>]
    ELSE [UnwrapPb(p_node) EXCEPT !.rexpr = <<PbNode(UnwrapPb(c_node))>>]

\* Written without parentheses, the parent over the child parses to another
\* grouping.
GroupingChanges(p_node, c_node, s) ==
    ParseExpr(Lex(BareText(WithChild(p_node, c_node, s))), 0).node
        # WithChild(p_node, c_node, s)

\* C9: at equal levels under a left- or right-associative parent, with side
\* supplied needs_parens is true exactly for the right child of a
\* left-associative parent and the left child of a right-associative one;
\* with side omitted it is false.  For binary operators that is exactly the
\* side on which the expression written without the parentheses parses to
\* another grouping.
C9_AssocRule ==
    ppc = "done" =>
        LET p == precedence_of(parent)
            c == precedence_of(child)
        IN  (c.level = p.level /\ p.assoc \in {"left", "right"}) =>
                /\ result = \/ (p.assoc = "left" /\ side = "right")
                            \/ (p.assoc = "right" /\ side = "left")
                /\ (IsInfix(parent) /\ IsInfix(child) /\ side # "none") =>
                       result = GroupingChanges(parent, child, side)

\* A subtraction as the right operand of an addition.
C9_Witness ==
    /\ ppc = "done"
    /\ precedence_of(parent) = Precedence(ADD_SUB, "left")
    /\ precedence_of(child) = Precedence(ADD_SUB, "left")
    /\ IsInfix(parent)
    /\ IsInfix(child)
    /\ side = "right"
    /\ result = TRUE
    /\ GroupingChanges(parent, child, side)

\* C10: an atomic child never needs parentheses: for every parent, an
\* atomic one included, and every side value, needs_parens is false.
C10_AtomicChildNoParens ==
    (ppc = "done" /\ precedence_of(child) = ATOMIC) => result = FALSE

\* The levels the ladder names, from the loosest to the tightest.
PrecLadder ==
    <<OR, AND, NOT, IS, COMPARISON, PATTERN, OP, ADD_SUB, MUL_DIV, EXP, UMINUS, TYPECAST,
      ATOMIC.level>>

\* C11: precedence_of returns for a message inside a Node wrapper what it
\* returns for the message; ATOMIC for every kind other than BoolExpr,
\* A_Expr, NullTest, BooleanTest and TypeCast; for an AEXPR_OP expression
\* (UMINUS, right) when it is a prefix minus and otherwise (OP, left) when
\* its symbol is not in the operator table; and the levels of the ladder
\* increase strictly.
C11_PrecedenceOf ==
    ppc = "done" =>
        LET inner == IF parent.type = "Node" THEN PrecUnwrapNode(parent) ELSE parent
            sym == PrecUnwrapNode(inner.name[1]).sval
        IN  /\ precedence_of(PbNode(inner)) = precedence_of(inner)
            /\ precedence_of(parent) = precedence_of(inner)
            /\ inner.type \notin {"BoolExpr", "A_Expr", "NullTest", "BooleanTest", "TypeCast"}
                   => precedence_of(parent) = ATOMIC
            /\ (inner.type = "A_Expr" /\ inner.kind = "AEXPR_OP" /\ inner.name # <<>>) =>
                   /\ (inner.lexpr = <<>> /\ sym = "-")
                          => precedence_of(parent) = Precedence(UMINUS, "right")
                   /\ sym \notin OP_TABLE_KEYS
                          => precedence_of(parent) = Precedence(OP, "left")
            /\ \A i \in 1..(Len(PrecLadder) - 1) : PrecLadder[i] < PrecLadder[i + 1]

\* A prefix minus inside a Node wrapper, and an operator that is not in the
\* table as the child.
C11_Witness ==
    /\ ppc = "done"
    /\ parent.type = "Node"
    /\ parent.node # <<>>
    /\ parent.node[1].type = "A_Expr"
    /\ parent.node[1].kind = "AEXPR_OP"
    /\ parent.node[1].lexpr = <<>>
    /\ PrecUnwrapNode(parent.node[1].name[1]).sval = "-"
    /\ precedence_of(parent) = Precedence(UMINUS, "right")

(***************************************************************************)
(* walk() and a Visitor without handlers on the same tree                  *)
(***************************************************************************)

\* list(walk(tree)) and Visitor().visit(tree) on every tree of at most
\* MaxVisitNodes messages, their steps interleaved.
InitWalkAndVisit ==
    /\ tree \in Trees(MaxVisitNodes)
    /\ wpc = "start"
    /\ stack = <<>>
    /\ yielded = <<>>
    /\ visitor \in {v \in Visitors : v.defined = {}}
    /\ vpc = "start"
    /\ frames = <<>>
    /\ visitLog = <<>>
    /\ handlerLog = <<>>
    /\ IdlePrec
    /\ IdleFmt
    /\ IdleEmit
    /\ IdleQuote
    /\ IdleDdl

SpecWalkAndVisit == InitWalkAndVisit /\ [][NextTraverse]_vars

\* C27: when walk() and a Visitor that defines no handler have both finished
\* on a tree, the messages handed to generic_visit are the messages walk()
\* yielded, in the same order; while they run, the shorter of the two
\* sequences is a prefix of the longer.
C27_VisitorEqualsWalk ==
    LET walked == [i \in 1..Len(yielded) |-> yielded[i].msg]
        visited == [i \in 1..Len(handlerLog) |-> handlerLog[i].node]
    IN  /\ IsPrefix(walked, visited) \/ IsPrefix(visited, walked)
        /\ (wpc = "done" /\ vpc = "done") => walked = visited

C27_Witness ==
    /\ wpc = "done" /\ vpc = "done"
    /\ Len(visitLog) = MaxVisitNodes
    /\ \E i \in 1..Len(yielded) : yielded[i].field = "args"


====
